---- MODULE Spec2Model ----
(***************************************************************************)
(* A model of zeroconf.py (python-zeroconf 0.16.0): the record model, the  *)
(* cache, the responder, the browser, the resolver, the reaper and the     *)
(* shutdown flag, as state machines over one node.                         *)
(*                                                                         *)
(* Time is in milliseconds, TTLs in seconds, as in the source.  A thread   *)
(* blocked in Zeroconf.wait(timeout) is in pc "waiting" with the time at   *)
(* which its timeout ends; notify_all moves every waiting thread on.  A    *)
(* thread that has decided to wait but has not yet entered the condition   *)
(* is in pc "towait": a notification issued then is lost to it.            *)
(*                                                                         *)
(* A step of a running thread takes no time on the model's clock: the      *)
(* clock moves only while every thread is blocked, not started or ended.   *)
(***************************************************************************)
EXTENDS Integers, Sequences, FiniteSets, TLC

VARIABLES
    clock,          \* current_time_millis()
    gdone,          \* the module global _GLOBAL_DONE
    cache,          \* Zeroconf.cache (DNSCache.cache: key -> list of records)
    listeners,      \* Zeroconf.listeners (list of listener ids)
    sent,           \* every packet handed to the respond sockets, in order
    br,             \* the ServiceBrowser objects and their threads
    calls,          \* per browser: the callbacks invoked on the user listener
    enq,            \* per browser: every callback ever appended to its list
    rp,             \* the Reaper thread
    nresp,          \* number of events the node's environment may still
                    \* produce: datagrams of the peer, calls of the application
    services,       \* Zeroconf.services (lowercase name -> ServiceInfo)
    servicetypes,   \* Zeroconf.servicetypes (type -> reference count)
    reg,            \* the caller thread inside register/unregister_service
    rs,             \* the caller thread inside get_service_info
    net,            \* datagrams looped back to the listen socket, in order
    socks,          \* state of the node's sockets
    browsers,       \* Zeroconf.browsers (list of browser ids)
    eng,            \* the Engine thread
    cl,             \* the caller thread inside close()
    hist,           \* history: what has happened so far (not program state)
    unit            \* a call of one function on its own: its arguments and
                    \* what it returned

vars == <<clock, gdone, cache, listeners, sent, br, calls, enq, rp, nresp,
          services, servicetypes, reg, rs, net, socks, browsers, eng, cl,
          hist, unit>>

-----------------------------------------------------------------------------
(* Program constants *)

UNREGISTER_TIME == 125
CHECK_TIME == 175
REGISTER_TIME == 225
LISTENER_TIME == 200
BROWSER_TIME == 500
MDNS_PORT == 5353
DNS_PORT == 53
DNS_TTL == 3600
CLASS_IN == 1
CLASS_CS == 2
TYPE_A == 1
TYPE_PTR == 12
TYPE_TXT == 16
TYPE_SRV == 33
TYPE_ANY == 255
BROWSER_MAX_DELAY == 20000
REAPER_PERIOD == 10000

MDNS_ADDR == "224.0.0.251"
ServicesMeta == "_services._dns-sd._udp.local."

-----------------------------------------------------------------------------
(* Names.  str.lower() is modelled on the names the model uses: the names  *)
(* with an upper-case letter map to their lower-case form, which is a      *)
(* different name; every other name is already lower-case.                 *)

TypeA == "_a._tcp.local."
TypeB == "_b._tcp.local."
TypeL == "local"
TypeU == "_A._tcp.local."

Lower(n) ==
    CASE n = "Web._a._tcp.local." -> "web._a._tcp.local."
      [] n = "Cam._A._tcp.local." -> "cam._a._tcp.local."
      [] n = "_A._tcp.local." -> "_a._tcp.local."
      [] n = "Host.local." -> "host.local."
      [] OTHER -> n

Min(a, b) == IF a <= b THEN a ELSE b
Max(a, b) == IF a >= b THEN a ELSE b

-----------------------------------------------------------------------------
(* Records.  One shape for every DNSRecord subclass; a field a subclass    *)
(* does not have is left at its zero value.                                *)

Rec(py, type, name, ttl, created) ==
    [py |-> py, type |-> type, name |-> name, class |-> CLASS_IN,
     unique |-> FALSE, ttl |-> ttl, created |-> created, alias |-> "",
     server |-> "", port |-> 0, priority |-> 0, weight |-> 0, text |-> "",
     address |-> ""]

NoRec == Rec("None", 0, "", 0, 0)

DNSPointer(name, ttl, alias, created) ==
    [Rec("DNSPointer", TYPE_PTR, name, ttl, created) EXCEPT !.alias = alias]

DNSService(name, ttl, priority, weight, port, server, created) ==
    [Rec("DNSService", TYPE_SRV, name, ttl, created) EXCEPT
        !.priority = priority, !.weight = weight, !.port = port,
        !.server = server]

DNSText(name, ttl, text, created) ==
    [Rec("DNSText", TYPE_TXT, name, ttl, created) EXCEPT !.text = text]

DNSAddress(name, ttl, address, created) ==
    [Rec("DNSAddress", TYPE_A, name, ttl, created) EXCEPT !.address = address]

\* A bare DNSEntry, as get_by_details builds one to look a record up
DNSEntry(name, type) == Rec("DNSEntry", type, name, 0, 0)

DNSQuestion(name, type) == [name |-> name, type |-> type, class |-> CLASS_IN]

\* DNSEntry.__init__: key = name.lower()
Key(e) == Lower(e.name)

\* a == b as Python evaluates it for a list item a: the __eq__ of a's class.
\* DNSPointer, DNSService, DNSText and DNSAddress each override
\* DNSRecord.__eq__ with isinstance(other, <own class>) and the payload only;
\* DNSEntry.__eq__ compares name, type and class.
RecEq(a, b) ==
    CASE a.py = "DNSPointer" -> b.py = "DNSPointer" /\ a.alias = b.alias
      [] a.py = "DNSService" -> /\ b.py = "DNSService"
                                /\ a.priority = b.priority
                                /\ a.weight = b.weight
                                /\ a.port = b.port
                                /\ a.server = b.server
      [] a.py = "DNSText" -> b.py = "DNSText" /\ a.text = b.text
      [] a.py = "DNSAddress" -> b.py = "DNSAddress" /\ a.address = b.address
      [] a.py = "DNSEntry" -> /\ a.name = b.name
                              /\ a.type = b.type
                              /\ a.class = b.class
      [] OTHER -> FALSE

GetExpirationTime(r, percent) == r.created + (percent * r.ttl * 10)

\* is_expired with the instant of expiry left out
IsExpiredAfter(r, now) == GetExpirationTime(r, 100) < now

IsExpired(r, now) == GetExpirationTime(r, 100) <= now

IsStale(r, now) == GetExpirationTime(r, 50) <= now

\* max(0, (expiration - now) / 1000), truncated by write_int's int()
GetRemainingTtl(r, now) == Max(0, (GetExpirationTime(r, 100) - now) \div 1000)

ResetTtl(r, other) == [r EXCEPT !.created = other.created, !.ttl = other.ttl]

AnsweredBy(q, rec) ==
    /\ q.class = rec.class
    /\ (q.type = rec.type \/ q.type = TYPE_ANY)
    /\ q.name = rec.name

-----------------------------------------------------------------------------
(* DNSCache.  cache.keys is the set of keys of the dict, cache.b the list  *)
(* under each key; a key, once created by add, stays in the dict.          *)

KeyOrder == <<TypeA, TypeB, TypeL, "web._a._tcp.local.", "db._a._tcp.local.",
              "host.local.", ServicesMeta, "cam._a._tcp.local.", "naslocal",
              "naslocal.[127.0.0.1:80].local", "db.local.">>

CacheKeys == {KeyOrder[i] : i \in 1..Len(KeyOrder)}

EmptyCache == [keys |-> {}, b |-> [k \in CacheKeys |-> <<>>]]

RECURSIVE IndexOf(_, _, _)
\* list.index(e): position of the first item equal to e, 0 when there is none
IndexOf(list, e, i) ==
    IF i > Len(list) THEN 0
    ELSE IF RecEq(list[i], e) THEN i
    ELSE IndexOf(list, e, i + 1)

RemoveAt(list, i) ==
    [j \in 1..(Len(list) - 1) |-> IF j < i THEN list[j] ELSE list[j + 1]]

CacheAdd(c, e) ==
    [keys |-> c.keys \cup {Key(e)},
     b |-> [c.b EXCEPT ![Key(e)] = Append(@, e)]]

CacheRemove(c, e) ==
    IF Key(e) \in c.keys /\ IndexOf(c.b[Key(e)], e, 1) > 0
    THEN [c EXCEPT !.b[Key(e)] = RemoveAt(@, IndexOf(@, e, 1))]
    ELSE c

CacheHas(c, e) ==
    Key(e) \in c.keys /\ IndexOf(c.b[Key(e)], e, 1) > 0

CacheGet(c, e) ==
    IF CacheHas(c, e) THEN c.b[Key(e)][IndexOf(c.b[Key(e)], e, 1)] ELSE NoRec

EntriesWithName(c, name) == IF name \in c.keys THEN c.b[name] ELSE <<>>

RECURSIVE Concat(_, _, _)
Concat(c, order, i) ==
    IF i > Len(order) THEN <<>>
    ELSE (IF order[i] \in c.keys THEN c.b[order[i]] ELSE <<>>)
         \o Concat(c, order, i + 1)

\* reduce(lambda a, b: a + b, self.cache.values())
Entries(c) == Concat(c, KeyOrder, 1)

\* A membership test that finds nothing
InEntriesNever(c, e) == FALSE

\* `record in self.cache.entries()`
InEntries(c, e) == IndexOf(Entries(c), e, 1) > 0

-----------------------------------------------------------------------------
(* Threads and objects of the model *)

Browsers == {"b1"}
Resolvers == {"r1"}

\* The type each ServiceBrowser is created for
BType(b) == TypeA

AddEvent(type, name) == [kind |-> "add", type |-> type, name |-> name]
RemoveEvent(type, name) == [kind |-> "remove", type |-> type, name |-> name]

-----------------------------------------------------------------------------
(* ServiceBrowser *)

\* ServiceBrowser.__init__, before add_listener and start()
NewBrowser(type, now) ==
    [type |-> type, services |-> [k \in CacheKeys |-> NoRec], list |-> <<>>,
     next_time |-> now, delay |-> BROWSER_TIME, done |-> FALSE,
     pc |-> "new", now |-> 0, timeout |-> 0, wake |-> 0]

NoBrowser == [NewBrowser("", 0) EXCEPT !.pc = "none"]

\* `expires = record.get_expiration_time(75); if expires < self.next_time: ...`
BrowserReschedule(b, record) ==
    IF GetExpirationTime(record, 75) < b.next_time
    THEN [b EXCEPT !.next_time = GetExpirationTime(record, 75)]
    ELSE b

\* A browser that finds no service known: every lookup raises KeyError
OldRecordMissing(b, k) == NoRec

\* `oldrecord = self.services[record.alias.lower()]`, NoRec for KeyError
OldRecord(b, k) == b.services[k]

\* ServiceBrowser.update_record.  self.services maps alias.lower() to the
\* record; the model keeps the record's value there (with aliases that have
\* one spelling each, the record a browser holds and the cached record are
\* reset together, so holding the value or the object is the same).
BrowserUpdateRecord(b, now, record) ==
    IF record.type = TYPE_PTR /\ record.name = b.type
    THEN LET expired == IsExpired(record, now)
             k == Lower(record.alias)
         IN  IF OldRecord(b, k) # NoRec
             THEN IF ~expired
                  THEN BrowserReschedule(
                         [b EXCEPT !.services[k] = ResetTtl(@, record)], record)
                  ELSE [b EXCEPT !.services[k] = NoRec,
                                 !.list = Append(@, RemoveEvent(b.type, record.alias))]
             ELSE IF ~expired
                  THEN BrowserReschedule(
                         [b EXCEPT !.services[k] = record,
                                   !.list = Append(@, AddEvent(b.type, record.alias))],
                         record)
                  ELSE BrowserReschedule(b, record)
    ELSE b

-----------------------------------------------------------------------------
(* ServiceInfo as a resolver (get_service_info) *)

None == "None"

\* ServiceInfo(type, name): server defaults to name, text (properties) to None
NewInfo(type, name) ==
    [type |-> type, name |-> name, address |-> None, port |-> -1, weight |-> 0,
     priority |-> 0, server |-> name, text |-> None]

\* DNSCache.get_by_details
GetByDetails(c, name, type) == CacheGet(c, DNSEntry(name, type))

\* ServiceInfo.update_record for a record that is an address record or None
InfoUpdateAddress(info, now, record) ==
    IF record # NoRec /\ ~IsExpired(record, now)
       /\ record.type = TYPE_A /\ record.name = info.server
    THEN [info EXCEPT !.address = record.address]
    ELSE info

\* ServiceInfo.update_record
InfoUpdateRecord(info, c, now, record) ==
    IF record # NoRec /\ ~IsExpired(record, now)
    THEN CASE record.type = TYPE_A -> InfoUpdateAddress(info, now, record)
           [] record.type = TYPE_SRV ->
                IF record.name = info.name
                THEN LET i2 == [info EXCEPT !.server = record.server,
                                            !.port = record.port,
                                            !.weight = record.weight,
                                            !.priority = record.priority]
                         a == GetByDetails(c, i2.server, TYPE_A)
                     IN  IF a.type = TYPE_A THEN InfoUpdateAddress(i2, now, a)
                         ELSE i2
                ELSE info
           [] record.type = TYPE_TXT ->
                IF record.name = info.name
                THEN [info EXCEPT !.text = record.text]
                ELSE info
           [] OTHER -> info
    ELSE info

-----------------------------------------------------------------------------
(* Zeroconf: listeners, update_record, handle_response.  st is the part of  *)
(* the state these calls read and write: [cache, br, rs].                   *)

RECURSIVE UpdateListeners(_, _, _, _, _)
\* `for listener in self.listeners: listener.update_record(self, now, rec)`
UpdateListeners(lst, i, st, now, rec) ==
    IF i > Len(lst) THEN st
    ELSE LET l == lst[i]
             st2 == IF l \in Browsers
                    THEN [st EXCEPT !.br[l] = BrowserUpdateRecord(@, now, rec)]
                    ELSE [st EXCEPT !.rs[l].info =
                                      InfoUpdateRecord(@, st.cache, now, rec)]
         IN  UpdateListeners(lst, i + 1, st2, now, rec)

\* Zeroconf.update_record, without its closing notify_all
ZcUpdateRecord(lst, st, now, rec) == UpdateListeners(lst, 1, st, now, rec)

\* The body of handle_response's loop for one answer
HandleAnswer(lst, st, now, record) ==
    LET expired == IsExpired(record, now)
    IN  IF InEntries(st.cache, record)
        THEN IF expired
             THEN ZcUpdateRecord(lst,
                    [st EXCEPT !.cache = CacheRemove(@, record)], now, record)
             ELSE LET entry == CacheGet(st.cache, record)
                  IN  IF entry # NoRec
                      THEN LET e2 == ResetTtl(entry, record)
                               i == IndexOf(st.cache.b[Key(record)], record, 1)
                           IN  ZcUpdateRecord(lst,
                                 [st EXCEPT !.cache.b[Key(record)][i] = e2],
                                 now, e2)
                      ELSE ZcUpdateRecord(lst, st, now, record)
        ELSE ZcUpdateRecord(lst,
               [st EXCEPT !.cache = CacheAdd(@, record)], now, record)

RECURSIVE HandleAnswers(_, _, _, _, _)
HandleAnswers(lst, st, now, answers, i) ==
    IF i > Len(answers) THEN st
    ELSE HandleAnswers(lst, HandleAnswer(lst, st, now, answers[i]), now,
                       answers, i + 1)

\* Zeroconf.handle_response
HandleResponse(lst, st, now, answers) == HandleAnswers(lst, st, now, answers, 1)

-----------------------------------------------------------------------------
(* DNSOutgoing, its wire form, and DNSIncoming *)

FLAGS_QR_QUERY == 0
FLAGS_QR_RESPONSE == 32768
FLAGS_AA == 1024

\* DNSOutgoing.__init__; answers holds (record, now) pairs
DNSOutgoing(flags, multicast) ==
    [flags |-> flags, id |-> 0, multicast |-> multicast, questions |-> <<>>,
     answers |-> <<>>, authorities |-> <<>>, additionals |-> <<>>]

AddQuestion(out, q) == [out EXCEPT !.questions = Append(@, q)]

\* DNSOutgoing.add_answer_at_time
AddAnswerAtTime(out, record, now) ==
    IF record # NoRec /\ (now = 0 \/ ~IsExpired(record, now))
    THEN [out EXCEPT !.answers = Append(@, [rec |-> record, now |-> now])]
    ELSE out

AddAuthorativeAnswer(out, record) == [out EXCEPT !.authorities = Append(@, record)]

AddAdditionalAnswer(out, record) == [out EXCEPT !.additionals = Append(@, record)]

\* DNSOutgoing.write_record: the ttl written is the record's, or the
\* remaining ttl when the answer was added with a time
WireRecord(a) ==
    IF a.now = 0 THEN a.rec
    ELSE [a.rec EXCEPT !.ttl = GetRemainingTtl(a.rec, a.now)]

\* DNSOutgoing.write_record: the cache-flush bit is written for a unique
\* record of a multicast message only
WireClass(out, rec) == [rec EXCEPT !.unique = rec.unique /\ out.multicast]

\* DNSOutgoing.packet: the datagram, as the sections it carries; the id is
\* forced to 0 for a multicast message
Packet(out) ==
    [id |-> IF out.multicast THEN 0 ELSE out.id, flags |-> out.flags,
     questions |-> out.questions,
     answers |-> [i \in 1..Len(out.answers) |->
                    WireClass(out, WireRecord(out.answers[i]))],
     authorities |-> [i \in 1..Len(out.authorities) |->
                        WireClass(out, out.authorities[i])],
     additionals |-> [i \in 1..Len(out.additionals) |->
                        WireClass(out, out.additionals[i])]]

\* Zeroconf.send with open sockets: the datagram and its destination
Datagram(out, addr, port) == [pkt |-> Packet(out), addr |-> addr, port |-> port]

\* A record as DNSIncoming builds it from the wire at time now
Received(rec, now) == [rec EXCEPT !.created = now]

\* A parser that reads the answer section only
DNSIncomingAnswers(pkt, now) ==
    [id |-> pkt.id, flags |-> pkt.flags, questions |-> pkt.questions,
     answers |-> [i \in 1..Len(pkt.answers) |-> Received(pkt.answers[i], now)]]

\* DNSIncoming(data) at time now.  read_header stores the authority count
\* as num_quthorities, so read_others reads num_answers + 0 +
\* num_additionals records from where the answer section begins.
DNSIncoming(pkt, now) ==
    LET n == Len(pkt.answers) + Len(pkt.additionals)
        wire == pkt.answers \o pkt.authorities \o pkt.additionals
    IN  [id |-> pkt.id, flags |-> pkt.flags, questions |-> pkt.questions,
         answers |-> [i \in 1..n |-> Received(wire[i], now)]]

\* DNSIncoming.is_query: (flags & _FLAGS_QR_MASK) == _FLAGS_QR_QUERY
IsQuery(msg) == (msg.flags \div FLAGS_QR_RESPONSE) % 2 = 0

-----------------------------------------------------------------------------
(* Waiting on the node condition *)

\* (locals of a thread that are dead at a pc are kept at 0)
WakeBrowser(b) ==
    IF b.pc = "waiting" THEN [b EXCEPT !.pc = "check", !.wake = 0] ELSE b

WakeThread(t) ==
    IF t.pc = "waiting" THEN [t EXCEPT !.pc = "woken", !.wake = 0] ELSE t

\* Zeroconf.notify_all on the threads t = [br, rp, reg, rs]
NotifyAll(t) ==
    [br |-> [b \in Browsers |-> WakeBrowser(t.br[b])],
     rp |-> IF t.rp.pc = "waiting"
            THEN [t.rp EXCEPT !.pc = "check", !.wake = 0] ELSE t.rp,
     reg |-> WakeThread(t.reg),
     rs |-> [r \in Resolvers |-> WakeThread(t.rs[r])]]

Threads == [br |-> br, rp |-> rp, reg |-> reg, rs |-> rs]

SetThreads(t) ==
    /\ br' = t.br
    /\ rp' = t.rp
    /\ reg' = t.reg
    /\ rs' = t.rs

\* What the callbacks appended to each browser's list in this step
Enqueued(old, new) ==
    [b \in Browsers |->
        enq[b] \o SubSeq(new[b].list, Len(old[b].list) + 1, Len(new[b].list))]

-----------------------------------------------------------------------------
(* Sending.  socks.open: the sockets have not been closed; socks.loopback:  *)
(* the listen socket receives the node's own multicast datagrams;           *)
(* socks.short: sendto returns a short count.                               *)

\* Zeroconf.send: what it raises.  sendto on a closed socket raises OSError;
\* a socket that takes less than the whole packet (socks.short) makes send
\* raise Error
SendRaises ==
    IF ~socks.open THEN "OSError" ELSE IF socks.short THEN "Error" ELSE ""

SentAfter(log, dg) == Append(log, dg)

NetAfter(q, dg) ==
    IF socks.loopback /\ dg.addr = MDNS_ADDR THEN Append(q, dg) ELSE q

-----------------------------------------------------------------------------
(* Zeroconf.add_listener / remove_listener *)

RECURSIVE AddListenerScan(_, _, _, _, _, _)
\* the loop of add_listener over cache.entries_with_name(question.name)
AddListenerScan(l, q, st, now, list, i) ==
    IF i > Len(list) THEN st
    ELSE LET record == list[i]
             st2 == IF AnsweredBy(q, record) /\ ~IsExpired(record, now)
                    THEN UpdateListeners(<<l>>, 1, st, now, record)
                    ELSE st
         IN  AddListenerScan(l, q, st2, now, list, i + 1)

\* Zeroconf.add_listener, without its closing notify_all: the new st
AddListener(l, q, st, now) ==
    AddListenerScan(l, q, st, now, EntriesWithName(st.cache, q.name), 1)

RECURSIVE ListIndex(_, _, _)
ListIndex(list, x, i) ==
    IF i > Len(list) THEN 0
    ELSE IF list[i] = x THEN i
    ELSE ListIndex(list, x, i + 1)

\* list.remove(x) on a list of ids; the list unchanged when x is not in it
ListRemove(list, x) ==
    IF ListIndex(list, x, 1) = 0 THEN list
    ELSE [j \in 1..(Len(list) - 1) |->
            IF j < ListIndex(list, x, 1) THEN list[j] ELSE list[j + 1]]

\* A listener the application adds with add_listener(listener, None), whose
\* update_record raises
Raiser == "raiser"

\* The listeners update_record calls before the one that raises
CalledFirst(lst) == SubSeq(lst, 1, ListIndex(lst, Raiser, 1) - 1)

\* Some listener's update_record raises
Raises(lst) == ListIndex(lst, Raiser, 1) > 0

-----------------------------------------------------------------------------
(* ServiceBrowser: creation, cancel, and the steps of run() *)

RECURSIVE KnownAnswers(_, _, _, _)
\* `for record in self.services.values(): if not record.is_expired(now): ...`
KnownAnswers(out, b, now, i) ==
    IF i > Len(KeyOrder) THEN out
    ELSE KnownAnswers(
           IF b.services[KeyOrder[i]] # NoRec
              /\ ~IsExpired(b.services[KeyOrder[i]], now)
           THEN AddAnswerAtTime(out, b.services[KeyOrder[i]], now)
           ELSE out,
           b, now, i + 1)

BrowserQuery(b, now) ==
    KnownAnswers(AddQuestion(DNSOutgoing(FLAGS_QR_QUERY, TRUE),
                             DNSQuestion(b.type, TYPE_PTR)), b, now, 1)

\* Zeroconf.add_service_listener(type, listener) for a listener that has no
\* browser yet: ServiceBrowser.__init__ (add_listener, start) and
\* browsers.append
AddServiceListener(b) ==
    /\ br[b].pc = "none"
    /\ ~gdone
    /\ LET b0 == [NewBrowser(BType(b), clock) EXCEPT !.pc = "top"]
           st == AddListener(b, DNSQuestion(BType(b), TYPE_PTR),
                             [cache |-> cache, br |-> [br EXCEPT ![b] = b0],
                              rs |-> rs], clock)
           t == NotifyAll([br |-> st.br, rp |-> rp, reg |-> reg, rs |-> st.rs])
       IN  /\ SetThreads(t)
           /\ enq' = Enqueued([br EXCEPT ![b] = b0], st.br)
    /\ listeners' = Append(listeners, b)
    /\ browsers' = Append(browsers, b)
    /\ UNCHANGED <<clock, gdone, cache, sent, calls, nresp, services,
                   servicetypes, net, socks, eng, cl, hist, unit>>

\* ServiceBrowser.run: `now = ...; if len(self.list) == 0 and
\* self.next_time > now:` decides whether to wait
BrowserTop(b) ==
    /\ br[b].pc = "top"
    /\ br' = [br EXCEPT ![b] =
                IF Len(br[b].list) = 0 /\ br[b].next_time > clock
                THEN [@ EXCEPT !.timeout = br[b].next_time - clock,
                               !.pc = "towait"]
                ELSE [@ EXCEPT !.pc = "check"]]
    /\ UNCHANGED <<clock, gdone, cache, listeners, sent, calls, enq, rp, nresp,
                   services, servicetypes, reg, rs, net, socks, browsers, eng,
                   cl, hist, unit>>

\* self.zc.wait(self.next_time - now): the thread enters the condition
BrowserEnterWait(b) ==
    /\ br[b].pc = "towait"
    /\ br' = [br EXCEPT ![b] = [@ EXCEPT !.pc = "waiting", !.timeout = 0,
                                         !.wake = clock + br[b].timeout]]
    /\ UNCHANGED <<clock, gdone, cache, listeners, sent, calls, enq, rp, nresp,
                   services, servicetypes, reg, rs, net, socks, browsers, eng,
                   cl, hist, unit>>

\* the wait times out
BrowserTimeout(b) ==
    /\ br[b].pc = "waiting"
    /\ clock >= br[b].wake
    /\ br' = [br EXCEPT ![b] = WakeBrowser(@)]
    /\ UNCHANGED <<clock, gdone, cache, listeners, sent, calls, enq, rp, nresp,
                   services, servicetypes, reg, rs, net, socks, browsers, eng,
                   cl, hist, unit>>

\* `if _GLOBAL_DONE or self.done: return` and `now = current_time_millis()`
BrowserCheck(b) ==
    /\ br[b].pc = "check"
    /\ br' = [br EXCEPT ![b] =
                IF gdone \/ @.done THEN [@ EXCEPT !.pc = "exit"]
                ELSE [@ EXCEPT !.now = clock, !.pc = "act"]]
    /\ UNCHANGED <<clock, gdone, cache, listeners, sent, calls, enq, rp, nresp,
                   services, servicetypes, reg, rs, net, socks, browsers, eng,
                   cl, hist, unit>>

\* A pop from the wrong end of the list
PopLast(list) ==
    [event |-> list[Len(list)], rest |-> SubSeq(list, 1, Len(list) - 1)]

\* event = self.list.pop(0)
PopFirst(list) == [event |-> Head(list), rest |-> Tail(list)]

\* ServiceBrowser.run has no try: an exception of send or of the callback
\* ends the thread
BrowserRaises(b) == [b EXCEPT !.pc = "dead"]

\* A delay that doubles with no cap
Doubled(delay) == delay * 2

\* min(20 * 1000, self.delay * 2)
NextDelayOf(delay) == Min(BROWSER_MAX_DELAY, delay * 2)

\* The rest of one iteration of run(): the query when it is due, then the
\* oldest pending callback is popped and invoked.  A send on closed sockets
\* raises, which ends the thread.
BrowserAct(b) ==
    /\ br[b].pc = "act"
    /\ LET me == br[b]
           due == me.next_time <= me.now
       IN  IF due /\ SendRaises # ""
           THEN /\ br' = [br EXCEPT ![b] = BrowserRaises(@)]
                /\ UNCHANGED <<sent, net, calls, unit>>
           ELSE /\ sent' = IF due
                           THEN SentAfter(sent, Datagram(BrowserQuery(me, me.now),
                                                         MDNS_ADDR, MDNS_PORT))
                           ELSE sent
                /\ net' = IF due
                          THEN NetAfter(net, Datagram(BrowserQuery(me, me.now),
                                                      MDNS_ADDR, MDNS_PORT))
                          ELSE net
                /\ calls' = IF Len(me.list) > 0
                            THEN [calls EXCEPT ![b] =
                                    Append(@, PopFirst(me.list).event)]
                            ELSE calls
                /\ br' = [br EXCEPT ![b] =
                            [@ EXCEPT !.next_time = IF due THEN me.now + me.delay
                                                  ELSE @,
                                      !.delay = IF due
                                                THEN NextDelayOf(me.delay)
                                                ELSE @,
                                      !.list = IF Len(me.list) > 0
                                               THEN PopFirst(me.list).rest
                                               ELSE @,
                                      !.now = 0,
                                      !.pc = "top"]]
    /\ UNCHANGED <<clock, gdone, cache, listeners, enq, rp, nresp, services,
                   servicetypes, reg, rs, socks, browsers, eng, cl, hist,
                   unit>>

\* The rest of one iteration of run() when the listener's add_service or
\* remove_service raises: the query was sent if it was due, the callback was
\* popped and called, and its exception ends the thread
BrowserCallbackRaises(b) ==
    /\ br[b].pc = "act"
    /\ Len(br[b].list) > 0
    /\ ~(br[b].next_time <= br[b].now /\ SendRaises # "")
    /\ LET me == br[b]
           due == me.next_time <= me.now
       IN  /\ sent' = IF due
                      THEN SentAfter(sent, Datagram(BrowserQuery(me, me.now),
                                                    MDNS_ADDR, MDNS_PORT))
                      ELSE sent
           /\ net' = IF due
                     THEN NetAfter(net, Datagram(BrowserQuery(me, me.now),
                                                 MDNS_ADDR, MDNS_PORT))
                     ELSE net
           /\ calls' = [calls EXCEPT ![b] = Append(@, PopFirst(me.list).event)]
           /\ br' = [br EXCEPT ![b] =
                       BrowserRaises(
                         [@ EXCEPT !.next_time = IF due THEN me.now + me.delay
                                                 ELSE @,
                                   !.delay = IF due
                                             THEN NextDelayOf(me.delay)
                                             ELSE @,
                                   !.list = PopFirst(me.list).rest,
                                   !.now = 0])]
    /\ UNCHANGED <<clock, gdone, cache, listeners, enq, rp, nresp, services,
                   servicetypes, reg, rs, socks, browsers, eng, cl, hist,
                   unit>>

\* Zeroconf.remove_service_listener(listener): ServiceBrowser.cancel on the
\* listener's browser; `del(browser)` unbinds the loop variable only
RemoveServiceListener(b) ==
    /\ br[b].pc # "none"
    /\ ListIndex(browsers, b, 1) > 0
    /\ ~br[b].done
    /\ SetThreads(NotifyAll([br |-> [br EXCEPT ![b].done = TRUE],
                             rp |-> rp, reg |-> reg, rs |-> rs]))
    /\ UNCHANGED <<clock, gdone, cache, listeners, sent, calls, enq, nresp,
                   services, servicetypes, net, socks, browsers, eng, cl, hist,
                   unit>>

-----------------------------------------------------------------------------
(* Engine and Listener: the one thread that reads the listen socket *)

\* An engine that does not look at the flag
EngineLoops(e) == [e EXCEPT !.pc = "select"]

\* Engine.run: the thread is in select (pc "select") until a socket is
\* readable, the 5 s timeout ends or select raises on a closed socket; after
\* the handler it evaluates `while not _GLOBAL_DONE` and selects again.  The
\* model does not keep the time at which the select began: its timeout can
\* end at any moment.
EngineNext(e) == [e EXCEPT !.pc = IF gdone THEN "exit" ELSE "select"]

\* An engine that an exception of the handler ends
EngineDies(e, err) ==
    IF err # "" THEN [e EXCEPT !.pc = "dead"] ELSE EngineNext(e)

\* `try: self.readers[socket_].handle_read(socket_)` with its `except
\* Exception`, inside the loop: what the handler raised (err) is logged and
\* the loop goes on
EngineCatches(e, err) == EngineNext(e)

\* select returns with nothing to read: its timeout ended, or it raised
\* because close() closed the socket (the exception is caught and logged)
EngineSelectReturns ==
    /\ eng.pc = "select"
    /\ eng' = EngineNext(eng)
    /\ UNCHANGED <<clock, gdone, cache, listeners, sent, br, calls, enq, rp,
                   nresp, services, servicetypes, reg, rs, net, socks,
                   browsers, cl, hist, unit>>

\* The node's state after Zeroconf.handle_response(msg) with its notify_all
AfterResponse(answers) ==
    LET st == HandleResponse(listeners, [cache |-> cache, br |-> br, rs |-> rs],
                             clock, answers)
    IN  [cache |-> st.cache,
         t |-> NotifyAll([br |-> st.br, rp |-> rp, reg |-> reg, rs |-> st.rs])]

-----------------------------------------------------------------------------
(* Reaper *)

\* Reaper.run: self.zc.wait(10 * 1000), the thread enters the condition
ReaperEnterWait ==
    /\ rp.pc = "towait"
    /\ rp' = [rp EXCEPT !.pc = "waiting", !.wake = clock + REAPER_PERIOD]
    /\ UNCHANGED <<clock, gdone, cache, listeners, sent, br, calls, enq, nresp,
                   services, servicetypes, reg, rs, net, socks, browsers, eng,
                   cl, hist, unit>>

ReaperTimeout ==
    /\ rp.pc = "waiting"
    /\ clock >= rp.wake
    /\ rp' = [rp EXCEPT !.pc = "check", !.wake = 0]
    /\ UNCHANGED <<clock, gdone, cache, listeners, sent, br, calls, enq, nresp,
                   services, servicetypes, reg, rs, net, socks, browsers, eng,
                   cl, hist, unit>>

\* `if _GLOBAL_DONE: return`, `now = current_time_millis()` and the call of
\* cache.entries().  reduce() over a dict of one list returns that list
\* itself (rp.live, rp.key); over several lists it returns a new list (rp.it).
ReaperCheck ==
    /\ rp.pc = "check"
    /\ rp' = IF gdone THEN [rp EXCEPT !.pc = "exit"]
             ELSE [rp EXCEPT !.pc = "sweep", !.now = clock, !.idx = 1,
                     !.live = (Cardinality(cache.keys) = 1),
                     !.key = IF Cardinality(cache.keys) = 1
                             THEN CHOOSE k \in cache.keys : TRUE ELSE "",
                     !.it = IF Cardinality(cache.keys) = 1 THEN <<>>
                            ELSE Entries(cache)]
    /\ UNCHANGED <<clock, gdone, cache, listeners, sent, br, calls, enq, nresp,
                   services, servicetypes, reg, rs, net, socks, browsers, eng,
                   cl, hist, unit>>

\* The list the reaper's for loop walks
ReaperList == IF rp.live THEN cache.b[rp.key] ELSE rp.it

\* Reaper.run has no try: an exception of update_record ends the thread
ReaperRaises(r) == [r EXCEPT !.pc = "dead"]

\* One iteration of `for record in self.zc.cache.entries()`, or its end.
\* With a listener that raises, update_record calls the listeners before
\* it and raises: the record stays cached and the thread ends.
ReaperSweep ==
    /\ rp.pc = "sweep"
    /\ IF rp.idx > Len(ReaperList)
       THEN /\ rp' = [rp EXCEPT !.pc = "towait", !.it = <<>>, !.idx = 1,
                                !.live = FALSE, !.key = "", !.now = 0]
            /\ UNCHANGED <<cache, br, enq, reg, rs, unit>>
       ELSE LET record == ReaperList[rp.idx]
            IN  IF IsExpired(record, rp.now) /\ Raises(listeners)
                THEN LET st == ZcUpdateRecord(CalledFirst(listeners),
                                 [cache |-> cache, br |-> br, rs |-> rs],
                                 rp.now, record)
                     IN  /\ br' = st.br
                         /\ rs' = st.rs
                         /\ enq' = Enqueued(br, st.br)
                         /\ rp' = ReaperRaises(rp)
                         /\ UNCHANGED <<cache, reg>>
                ELSE IF IsExpired(record, rp.now)
                THEN LET st == ZcUpdateRecord(listeners,
                                 [cache |-> cache, br |-> br, rs |-> rs],
                                 rp.now, record)
                         t == NotifyAll([br |-> st.br,
                                         rp |-> [rp EXCEPT !.idx = @ + 1],
                                         reg |-> reg, rs |-> st.rs])
                     IN  /\ SetThreads(t)
                         /\ cache' = CacheRemove(cache, record)
                         /\ enq' = Enqueued(br, st.br)
                ELSE /\ rp' = [rp EXCEPT !.idx = @ + 1]
                     /\ UNCHANGED <<cache, br, enq, reg, rs, unit>>
    /\ UNCHANGED <<clock, gdone, listeners, sent, calls, nresp, services,
                   servicetypes, net, socks, browsers, eng, cl, hist, unit>>

RECURSIVE ReaperSweepAll(_, _, _, _, _, _)
\* The whole `for record in self.zc.cache.entries()` from position idx on
\* st = [cache, br, rs, woke]; st.woke: update_record was called, and with
\* it notify_all
ReaperSweepAll(st, live, key, it, idx, now) ==
    LET list == IF live THEN st.cache.b[key] ELSE it
    IN  IF idx > Len(list) THEN st
        ELSE IF IsExpired(list[idx], now)
        THEN LET s1 == ZcUpdateRecord(listeners, st, now, list[idx])
             IN  ReaperSweepAll([s1 EXCEPT !.cache = CacheRemove(@, list[idx]),
                                           !.woke = TRUE],
                                live, key, it, idx + 1, now)
        ELSE ReaperSweepAll(st, live, key, it, idx + 1, now)

\* One round of Reaper.run with no other thread running in between: the
\* check of _GLOBAL_DONE, the sweep and the entry into the next wait
ReaperRound ==
    /\ rp.pc = "check"
    /\ IF gdone
       THEN /\ rp' = [rp EXCEPT !.pc = "exit"]
            /\ UNCHANGED <<cache, br, enq, reg, rs, unit>>
       ELSE LET live == Cardinality(cache.keys) = 1
                st == ReaperSweepAll(
                        [cache |-> cache, br |-> br, rs |-> rs, woke |-> FALSE],
                        live, IF live THEN CHOOSE k \in cache.keys : TRUE ELSE "",
                        IF live THEN <<>> ELSE Entries(cache), 1, clock)
                t == [br |-> st.br, rp |-> rp, reg |-> reg, rs |-> st.rs]
            IN  /\ cache' = st.cache
                /\ enq' = Enqueued(br, st.br)
                /\ br' = IF st.woke THEN NotifyAll(t).br ELSE st.br
                /\ reg' = IF st.woke THEN NotifyAll(t).reg ELSE reg
                /\ rs' = IF st.woke THEN NotifyAll(t).rs ELSE st.rs
                /\ rp' = [rp EXCEPT !.pc = "waiting", !.wake = clock + REAPER_PERIOD]
    /\ UNCHANGED <<clock, gdone, listeners, sent, calls, nresp, services,
                   servicetypes, net, socks, browsers, eng, cl, hist, unit>>

-----------------------------------------------------------------------------
(* ServiceInfo as a registered service, and the registry *)

Addr1 == "127.0.0.1"

\* ServiceInfo(type, name, address, port, properties, server) for a name that
\* ends with the type; server defaults to name
ServiceInfo(type, name, address, port, text, server) ==
    [type |-> type, name |-> name, address |-> address, port |-> port,
     weight |-> 0, priority |-> 0,
     server |-> IF server # "" THEN server ELSE name, text |-> text]

NoInfo ==
    [type |-> "", name |-> "", address |-> None, port |-> -1, weight |-> 0,
     priority |-> 0, server |-> "", text |-> None]

\* The services the application registers
SWeb == ServiceInfo(TypeA, "Web._a._tcp.local.", Addr1, 1234, "path=/", "Host.local.")
SCam == ServiceInfo(TypeU, "Cam._A._tcp.local.", Addr1, 80, "", "")
SNas == ServiceInfo(TypeL, "naslocal", Addr1, 80, "", "")
Infos == {SWeb, SCam, SNas}

\* `info.name.find('.') < 0` on the names of the model
NoDot(name) == name = "naslocal"

\* check_service: info.name = '%s.[%s:%s].%s' % (name, address, port, type)
Renamed(info) ==
    [info EXCEPT !.name = info.name \o ".[" \o info.address \o ":"
                          \o ToString(info.port) \o "]." \o info.type]

\* The keys Zeroconf.services can have, and the order of services.values()
ServiceKeyOrder ==
    <<Lower(SWeb.name), Lower(SCam.name), Lower(SNas.name),
      Lower(Renamed(SNas).name)>>
ServiceKeys == {ServiceKeyOrder[i] : i \in 1..Len(ServiceKeyOrder)}

\* The keys Zeroconf.servicetypes can have, in the order of its keys()
TypeOrder == <<TypeA, TypeU, TypeL>>
ServiceTypes == {TypeOrder[i] : i \in 1..Len(TypeOrder)}

-----------------------------------------------------------------------------
(* register_service, check_service, unregister_service: the caller thread   *)

NoBefore == [services |-> <<>>, servicetypes |-> <<>>, nsent |-> 0]

IdleReg ==
    [pc |-> "idle", ret |-> "", op |-> "", info |-> NoInfo, now |-> 0,
     next_time |-> 0, i |-> 0, wake |-> 0, before |-> NoBefore, out |-> ""]

\* The call returns or raises: the thread is back in the application
RegReturn(r, out) == [IdleReg EXCEPT !.out = out]

\* A wait that counts as a round of the loop
RegWaitCounted(r, ret) ==
    [r EXCEPT !.pc = "waiting", !.ret = ret, !.i = @ + 1,
              !.wake = clock + (r.next_time - r.now)]

\* self.wait(next_time - now), then `now = current_time_millis(); continue`
RegWait(r, ret) ==
    [r EXCEPT !.pc = "waiting", !.ret = ret, !.wake = clock + (r.next_time - r.now)]

\* The probe of check_service
Probe(info) ==
    AddAuthorativeAnswer(
        AddQuestion(DNSOutgoing(FLAGS_QR_QUERY + FLAGS_AA, TRUE),
                    DNSQuestion(info.type, TYPE_PTR)),
        DNSPointer(info.type, DNS_TTL, info.name, clock))

\* The server name of the SRV record in an announcement
AnnouncedServer(info) == info.server

\* The server name of the SRV record in a goodbye of unregister_service
GoodbyeServer(info) == info.name

\* The records of a service with a ttl, as register_service (ttl > 0) and
\* unregister_service (ttl 0) add them to a message
ServiceRecords(out, info, ttl, server) ==
    LET o1 == AddAnswerAtTime(out, DNSPointer(info.type, ttl, info.name, clock), 0)
        o2 == AddAnswerAtTime(o1, DNSService(info.name, ttl, info.priority,
                                             info.weight, info.port, server,
                                             clock), 0)
        o3 == AddAnswerAtTime(o2, DNSText(info.name, ttl, info.text, clock), 0)
    IN  IF info.address # None /\ info.address # ""
        THEN AddAnswerAtTime(o3, DNSAddress(info.server, ttl, info.address, clock), 0)
        ELSE o3

Announcement(info, ttl) ==
    ServiceRecords(DNSOutgoing(FLAGS_QR_RESPONSE + FLAGS_AA, TRUE), info, ttl,
                   AnnouncedServer(info))

Goodbye(info) ==
    ServiceRecords(DNSOutgoing(FLAGS_QR_RESPONSE + FLAGS_AA, TRUE), info, 0,
                   GoodbyeServer(info))

\* check_service: the scan of cache.entries_with_name(info.type) finds a
\* PTR record, not expired, whose alias is info.name
Collision(c, info, now) ==
    \E k \in 1..Len(EntriesWithName(c, info.type)) :
        LET record == EntriesWithName(c, info.type)[k]
        IN  /\ record.type = TYPE_PTR
            /\ ~IsExpired(record, now)
            /\ record.alias = info.name

\* register_service(info): the call begins, check_service reads the clock
RegisterService(S) ==
    /\ reg.pc = "idle"
    /\ nresp > 0
    /\ ~gdone
    /\ nresp' = nresp - 1
    /\ reg' = [IdleReg EXCEPT !.pc = "check", !.op = "register", !.info = S,
                !.now = clock, !.next_time = clock,
                !.before = [services |-> services, servicetypes |-> servicetypes,
                            nsent |-> Len(sent)]]
    /\ UNCHANGED <<clock, gdone, cache, listeners, sent, br, calls, enq, rp,
                   services, servicetypes, rs, net, socks, browsers, eng, cl,
                   hist, unit>>

\* One iteration of check_service's loop, or, after the third probe, its
\* return and the store of register_service
RegCheck ==
    /\ reg.pc = "check"
    /\ IF reg.i < 3
       THEN /\ UNCHANGED <<services, servicetypes, unit>>
            /\ IF Collision(cache, reg.info, reg.now)
               THEN /\ reg' = IF NoDot(reg.info.name)
                              THEN [reg EXCEPT !.info = Renamed(reg.info),
                                               !.now = clock, !.next_time = clock,
                                               !.i = 0]
                              ELSE RegReturn(reg, "NonUniqueNameException")
                    /\ UNCHANGED <<sent, net, unit>>
               ELSE IF reg.now < reg.next_time
               THEN /\ reg' = RegWait(reg, "check")
                    /\ UNCHANGED <<sent, net, unit>>
               ELSE IF SendRaises # ""
               THEN /\ reg' = RegReturn(reg, SendRaises)
                    /\ UNCHANGED <<sent, net, unit>>
               ELSE /\ sent' = SentAfter(sent, Datagram(Probe(reg.info),
                                                        MDNS_ADDR, MDNS_PORT))
                    /\ net' = NetAfter(net, Datagram(Probe(reg.info),
                                                     MDNS_ADDR, MDNS_PORT))
                    /\ reg' = [reg EXCEPT !.i = @ + 1,
                                          !.next_time = @ + CHECK_TIME]
       ELSE /\ services' = [services EXCEPT ![Lower(reg.info.name)] = reg.info]
            /\ servicetypes' = [servicetypes EXCEPT ![reg.info.type] = @ + 1]
            /\ reg' = [reg EXCEPT !.pc = "announce", !.now = clock,
                                  !.next_time = clock, !.i = 0]
            /\ UNCHANGED <<sent, net, unit>>
    /\ UNCHANGED <<clock, gdone, cache, listeners, br, calls, enq, rp, nresp,
                   rs, socks, browsers, eng, cl, hist, unit>>

\* The wait of the caller ends by its timeout
RegTimeout ==
    /\ reg.pc = "waiting"
    /\ clock >= reg.wake
    /\ reg' = [reg EXCEPT !.pc = reg.ret, !.ret = "", !.wake = 0, !.now = clock]
    /\ UNCHANGED <<clock, gdone, cache, listeners, sent, br, calls, enq, rp,
                   nresp, services, servicetypes, rs, net, socks, browsers,
                   eng, cl, hist, unit>>

\* The wait of the caller was ended by a notify_all
RegResume ==
    /\ reg.pc = "woken"
    /\ reg' = [reg EXCEPT !.pc = reg.ret, !.ret = "", !.now = clock]
    /\ UNCHANGED <<clock, gdone, cache, listeners, sent, br, calls, enq, rp,
                   nresp, services, servicetypes, rs, net, socks, browsers,
                   eng, cl, hist, unit>>

\* One iteration of the announcement loop of register_service (pc
\* "announce", 225 ms apart) or of the goodbye loop of unregister_service
\* (pc "goodbye", 125 ms apart).  hist.completed: the services whose
\* register_service has returned and that were not unregistered since.
RegSend ==
    /\ reg.pc \in {"announce", "goodbye"}
    /\ LET out == IF reg.pc = "announce" THEN Announcement(reg.info, DNS_TTL)
                  ELSE Goodbye(reg.info)
           period == IF reg.pc = "announce" THEN REGISTER_TIME ELSE UNREGISTER_TIME
       IN  IF reg.now < reg.next_time
           THEN /\ reg' = RegWait(reg, reg.pc)
                /\ UNCHANGED <<sent, net, unit>>
           ELSE IF SendRaises # ""
           THEN /\ reg' = RegReturn(reg, SendRaises)
                /\ UNCHANGED <<sent, net, unit>>
           ELSE /\ sent' = SentAfter(sent, Datagram(out, MDNS_ADDR, MDNS_PORT))
                /\ net' = NetAfter(net, Datagram(out, MDNS_ADDR, MDNS_PORT))
                /\ reg' = IF reg.i + 1 < 3
                          THEN [reg EXCEPT !.i = @ + 1, !.next_time = @ + period]
                          ELSE RegReturn(reg, "ok")
    /\ hist' = IF reg'.out = "ok" /\ reg.op = "register"
               THEN [hist EXCEPT !.completed = @ \cup {reg.info}]
               ELSE hist
    /\ UNCHANGED <<clock, gdone, cache, listeners, br, calls, enq, rp, nresp,
                   services, servicetypes, rs, socks, browsers, eng, cl, unit>>

\* unregister_service(info): the registry update (its exceptions are
\* swallowed), then the goodbye loop begins
UnregisterService(S) ==
    /\ reg.pc = "idle"
    /\ nresp > 0
    /\ ~gdone
    /\ nresp' = nresp - 1
    /\ LET key == Lower(S.name)
           present == services[key] # NoInfo
       IN  /\ services' = [services EXCEPT ![key] = NoInfo]
           /\ servicetypes' = IF present /\ servicetypes[S.type] > 0
                              THEN [servicetypes EXCEPT ![S.type] = @ - 1]
                              ELSE servicetypes
    /\ reg' = [IdleReg EXCEPT !.pc = "goodbye", !.op = "unregister", !.info = S,
                !.now = clock, !.next_time = clock,
                !.before = [NoBefore EXCEPT !.nsent = Len(sent)]]
    /\ hist' = [hist EXCEPT !.completed =
                                {x \in @ : Lower(x.name) # Lower(S.name)}]
    /\ UNCHANGED <<clock, gdone, cache, listeners, sent, br, calls, enq, rp,
                   rs, net, socks, browsers, eng, cl, unit>>

-----------------------------------------------------------------------------
(* Zeroconf.handle_query *)

\* out = None
NoOut == [DNSOutgoing(0, TRUE) EXCEPT !.flags = -1]

\* `if out is None: out = DNSOutgoing(_FLAGS_QR_RESPONSE | _FLAGS_AA)`
OutOrNew(out) ==
    IF out = NoOut THEN DNSOutgoing(FLAGS_QR_RESPONSE + FLAGS_AA, TRUE) ELSE out

\* DNSEntry.__init__ for a class with the cache-flush bit set
Unique(record) == [record EXCEPT !.unique = TRUE]

\* DNSRecord.suppressed_by: other.ttl > self.ttl / 2 for an equal answer
SuppressedBy(record, msg) ==
    \E i \in 1..Len(msg.answers) :
        RecEq(record, msg.answers[i]) /\ 2 * msg.answers[i].ttl > record.ttl

\* DNSOutgoing.add_answer
AddAnswer(out, msg, record) ==
    IF ~SuppressedBy(record, msg) THEN AddAnswerAtTime(out, record, 0) ELSE out

RECURSIVE MetaAnswers(_, _, _, _, _)
\* `for stype in self.servicetypes.keys()`
MetaAnswers(out, msg, types, now, i) ==
    IF i > Len(TypeOrder) THEN out
    ELSE MetaAnswers(
           IF types[TypeOrder[i]] > 0
           THEN AddAnswer(OutOrNew(out), msg,
                          DNSPointer(ServicesMeta, DNS_TTL, TypeOrder[i], now))
           ELSE out, msg, types, now, i + 1)

\* A question that every service matches
TypeMatchesAny(question, service) == TRUE

\* `if question.name == service.type`
TypeMatches(question, service) == question.name = service.type

RECURSIVE PtrAnswers(_, _, _, _, _, _)
\* `for service in self.services.values()` of the PTR branch
PtrAnswers(out, msg, question, svcs, now, i) ==
    IF i > Len(ServiceKeyOrder) THEN out
    ELSE LET service == svcs[ServiceKeyOrder[i]]
         IN  PtrAnswers(
               IF service # NoInfo /\ TypeMatches(question, service)
               THEN AddAnswer(OutOrNew(out), msg,
                              DNSPointer(service.type, DNS_TTL, service.name, now))
               ELSE out, msg, question, svcs, now, i + 1)

RECURSIVE AddressAnswers(_, _, _, _, _, _)
\* `for service in self.services.values()` of the A branch
AddressAnswers(out, msg, question, svcs, now, i) ==
    IF i > Len(ServiceKeyOrder) THEN out
    ELSE LET service == svcs[ServiceKeyOrder[i]]
         IN  AddressAnswers(
               IF service # NoInfo /\ service.server = Lower(question.name)
               THEN AddAnswer(out, msg,
                      Unique(DNSAddress(question.name, DNS_TTL, service.address, now)))
               ELSE out, msg, question, svcs, now, i + 1)

\* `service = self.services.get(question.name.lower(), None)`
ServiceNamed(svcs, name) ==
    IF Lower(name) \in ServiceKeys THEN svcs[Lower(name)] ELSE NoInfo

\* The body of handle_query's loop for one question
HandleQuestion(out, msg, question, svcs, types, now) ==
    IF question.type = TYPE_PTR
    THEN PtrAnswers(IF question.name = ServicesMeta
                    THEN MetaAnswers(out, msg, types, now, 1) ELSE out,
                    msg, question, svcs, now, 1)
    ELSE LET o1 == IF question.type \in {TYPE_A, TYPE_ANY}
                   THEN AddressAnswers(OutOrNew(out), msg, question, svcs, now, 1)
                   ELSE OutOrNew(out)
             service == ServiceNamed(svcs, question.name)
             o2 == IF question.type \in {TYPE_SRV, TYPE_ANY}
                   THEN AddAnswer(o1, msg,
                          Unique(DNSService(question.name, DNS_TTL, service.priority,
                                            service.weight, service.port,
                                            service.server, now)))
                   ELSE o1
             o3 == IF question.type \in {TYPE_TXT, TYPE_ANY}
                   THEN AddAnswer(o2, msg,
                          Unique(DNSText(question.name, DNS_TTL, service.text, now)))
                   ELSE o2
         IN  IF service = NoInfo THEN o1
             ELSE IF question.type = TYPE_SRV
             THEN AddAdditionalAnswer(o3,
                    Unique(DNSAddress(service.server, DNS_TTL, service.address, now)))
             ELSE o3

RECURSIVE HandleQuestions(_, _, _, _, _, _)
HandleQuestions(out, msg, svcs, types, now, i) ==
    IF i > Len(msg.questions) THEN out
    ELSE HandleQuestions(HandleQuestion(out, msg, msg.questions[i], svcs, types, now),
                         msg, svcs, types, now, i + 1)

\* Zeroconf.handle_query(msg, addr, port): the datagrams it sends (none or one)
HandleQuery(msg, addr, port, svcs, types, now) ==
    LET out0 == IF port # MDNS_PORT
                THEN [DNSOutgoing(FLAGS_QR_RESPONSE + FLAGS_AA, FALSE)
                        EXCEPT !.questions = msg.questions]
                ELSE NoOut
        out == HandleQuestions(out0, msg, svcs, types, now, 1)
    IN  IF out # NoOut /\ Len(out.answers) > 0
        THEN <<Datagram([out EXCEPT !.id = msg.id], addr, port)>>
        ELSE <<>>

\* A handler that answers every query by multicast only
QueryRepliesMulticast(msg, addr, port, svcs, types, now) ==
    IF port \in {MDNS_PORT, DNS_PORT}
    THEN HandleQuery(msg, MDNS_ADDR, MDNS_PORT, svcs, types, now)
    ELSE <<>>

\* Listener.handle_read for a query from (addr, port): the datagrams sent
QueryReplies(msg, addr, port, svcs, types, now) ==
    IF port = MDNS_PORT
    THEN HandleQuery(msg, MDNS_ADDR, MDNS_PORT, svcs, types, now)
    ELSE IF port = DNS_PORT
    THEN HandleQuery(msg, addr, port, svcs, types, now)
         \o HandleQuery(msg, MDNS_ADDR, MDNS_PORT, svcs, types, now)
    ELSE <<>>

-----------------------------------------------------------------------------
(* The peer: datagrams that arrive from other nodes *)

MaxResp == 2
PeerTtls == {0, 1}

\* (name, alias) of the PTR records the peer serves: two instances of type
\* A, and one of them also under a second name
PeerPtrs == {<<TypeA, "Web._a._tcp.local.">>, <<TypeA, "db._a._tcp.local.">>,
             <<TypeB, "Web._a._tcp.local.">>}

\* A PTR record as DNSIncoming builds it on arrival (created = now)
PeerPtr(name, alias, ttl) == DNSPointer(name, ttl, alias, clock)

\* The answer sections the peer's responses carry
PeerAnswers ==
    {<<PeerPtr(TypeA, "Web._a._tcp.local.", t)>> : t \in PeerTtls}
    \cup {<<PeerPtr(TypeA, "db._a._tcp.local.", t)>> : t \in PeerTtls \ {0}}
    \cup {<<PeerPtr(TypeB, "Web._a._tcp.local.", t),
            PeerPtr(TypeA, "Web._a._tcp.local.", t)>> : t \in PeerTtls}

\* <<name, alias>> of the PTR records in a response that are goodbyes
Goodbyes(answers) ==
    {<<answers[i].name, answers[i].alias>> :
        i \in {j \in 1..Len(answers) : answers[j].ttl = 0}}

\* hist.heard after a response: per <<name, alias>>, how many responses
\* (counted up to 2) have announced it to a browser of that name
HeardAfter(answers) ==
    [p \in PeerPtrs |->
        IF /\ \E i \in 1..Len(answers) :
                /\ <<answers[i].name, answers[i].alias>> = p
                /\ answers[i].ttl > 0
           /\ \E b \in Browsers : br[b].pc # "none" /\ br[b].type = p[1]
        THEN Min(2, hist.heard[p] + 1)
        ELSE hist.heard[p]]

\* Listener.handle_read for a response datagram of the peer:
\* DNSIncoming(data), then Zeroconf.handle_response(msg)
ReceiveResponse(answers) ==
    /\ eng.pc = "select"
    /\ socks.open
    /\ nresp > 0
    /\ LET a == AfterResponse(answers)
       IN  /\ cache' = a.cache
           /\ SetThreads(a.t)
           /\ enq' = Enqueued(br, a.t.br)
    /\ nresp' = nresp - 1
    /\ eng' = EngineNext(eng)
    /\ UNCHANGED <<clock, gdone, listeners, sent, calls, services,
                   servicetypes, net, socks, browsers, cl, unit>>

\* A response of the peer to a browsing node, and what the history keeps
\* of it
PeerResponse ==
    \E answers \in PeerAnswers :
        /\ ReceiveResponse(answers)
        /\ hist' = [hist EXCEPT !.last = answers,
                       !.lapsed = @ \cup Goodbyes(answers),
                       !.heard = HeardAfter(answers)]

\* The answer sections of the responses a peer sends that holds the names
\* the application is about to register
RivalAnswers ==
    {<<PeerPtr(TypeA, SWeb.name, t)>> : t \in PeerTtls}
    \cup {<<PeerPtr(TypeU, SCam.name, t)>> : t \in PeerTtls \ {0}}
    \cup {<<PeerPtr(TypeL, SNas.name, t)>> : t \in PeerTtls \ {0}}

RivalResponse ==
    \E answers \in RivalAnswers : ReceiveResponse(answers) /\ UNCHANGED hist

PeerAddr == "192.0.2.7"
SelfAddr == "192.0.2.1"

\* A query as DNSIncoming parses it, with where it came from
Query(id, questions, answers, port) ==
    [id |-> id, questions |-> questions, answers |-> answers,
     addr |-> PeerAddr, port |-> port]

\* The queries of the peer: one PTR question, no known answers, sent from
\* the mDNS port
PeerQueries ==
    {Query(7, <<DNSQuestion(T, TYPE_PTR)>>, <<>>, MDNS_PORT) : T \in {TypeA, TypeU}}

RECURSIVE SendAll(_, _, _)
\* Zeroconf.send for each datagram of a list, on the log or the loopback queue
SendAll(q, dgs, loop) ==
    IF dgs = <<>> THEN q
    ELSE SendAll(IF loop THEN NetAfter(q, Head(dgs)) ELSE SentAfter(q, Head(dgs)),
                 Tail(dgs), loop)

\* Listener.handle_read for a query datagram: DNSIncoming(data), then
\* Zeroconf.handle_query once or twice.  A send that raises ends the handler
\* (the engine logs the exception).
ReceiveQuery(msg) ==
    /\ eng.pc = "select"
    /\ socks.open
    /\ nresp > 0
    /\ LET dgs == IF SendRaises # "" THEN <<>>
                  ELSE QueryReplies(msg, msg.addr, msg.port, services,
                                    servicetypes, clock)
       IN  /\ sent' = SendAll(sent, dgs, FALSE)
           /\ net' = SendAll(net, dgs, TRUE)
    /\ nresp' = nresp - 1
    /\ eng' = EngineNext(eng)
    /\ UNCHANGED <<clock, gdone, cache, listeners, br, calls, enq, rp,
                   services, servicetypes, reg, rs, socks, browsers, cl, hist,
                   unit>>

PeerQuery == \E msg \in PeerQueries : ReceiveQuery(msg)

\* The PTR record handle_query answers a service type enumeration with
MetaPtr(stype) == DNSPointer(ServicesMeta, DNS_TTL, stype, clock)

\* The service type enumeration queries of the peer: the one PTR question,
\* sent from the DNS port or from the mDNS port, with no known answer or
\* with the answer for one type already known
MetaQueries ==
    {Query(7, <<DNSQuestion(ServicesMeta, TYPE_PTR)>>, known, port) :
        known \in {<<>>, <<MetaPtr(TypeA)>>}, port \in {DNS_PORT, MDNS_PORT}}

PeerMetaQuery == \E msg \in MetaQueries : ReceiveQuery(msg)

-----------------------------------------------------------------------------
(* The engine reading the node's own datagrams *)

\* What handle_query sends for the query at the head of the listen socket
OwnReplies ==
    IF SendRaises # "" THEN <<>>
    ELSE QueryReplies(DNSIncoming(Head(net).pkt, clock), SelfAddr, MDNS_PORT,
                      services, servicetypes, clock)

\* Listener.handle_read for the oldest datagram the listen socket holds, sent
\* by this node from its respond socket (bound to the mDNS port): a query.
\* A send that raises ends the handler (the engine logs the exception).
EngineReadQuery ==
    /\ eng.pc = "select"
    /\ socks.open
    /\ net # <<>>
    /\ IsQuery(DNSIncoming(Head(net).pkt, clock))
    /\ sent' = SendAll(sent, OwnReplies, FALSE)
    /\ net' = SendAll(Tail(net), OwnReplies, TRUE)
    /\ eng' = EngineNext(eng)
    /\ UNCHANGED <<clock, gdone, cache, listeners, br, calls, enq, rp, nresp,
                   services, servicetypes, reg, rs, socks, browsers, cl, hist,
                   unit>>

\* Listener.handle_read for the oldest datagram the listen socket holds: a
\* response of this node
EngineReadResponse ==
    /\ eng.pc = "select"
    /\ socks.open
    /\ net # <<>>
    /\ ~IsQuery(DNSIncoming(Head(net).pkt, clock))
    /\ cache' = AfterResponse(DNSIncoming(Head(net).pkt, clock).answers).cache
    /\ SetThreads(AfterResponse(DNSIncoming(Head(net).pkt, clock).answers).t)
    /\ enq' = Enqueued(br, AfterResponse(DNSIncoming(Head(net).pkt, clock).answers).t.br)
    /\ net' = Tail(net)
    /\ eng' = EngineNext(eng)
    /\ UNCHANGED <<clock, gdone, listeners, sent, calls, nresp, services,
                   servicetypes, socks, browsers, cl, hist, unit>>

-----------------------------------------------------------------------------
(* get_service_info and ServiceInfo.request: the caller thread *)

IdleRs ==
    [pc |-> "idle", type |-> "", name |-> "", timeout |-> 0, info |-> NoInfo,
     now |-> 0, delay |-> 0, next |-> 0, last |-> 0, wake |-> 0, out |-> ""]

\* The services the application registers and then looks up: one found by
\* a query, one found in the cache
Resolvables == {SWeb, SNas}

\* What the application asks for: the registered services, a service of
\* the peer, and an instance name under a type it does not end with
Lookups ==
    {<<S.type, S.name>> : S \in Resolvables}
    \cup {<<TypeA, "db._a._tcp.local.">>, <<TypeB, SWeb.name>>}

Timeouts == {3000}

\* No call begins that would not end by this time
MaxTime == 4000

\* name.endswith(type), on the names of the model
EndsWith(name, type) ==
    \E prefix \in {"Web.", "db.", "Cam.", "nas"} : prefix \o type = name

\* Resolved, but for the text
ResolvedButText(info) == info.server # None /\ info.address # None

\* The loop condition of request, negated
Resolved(info) == info.server # None /\ info.address # None /\ info.text # None

\* The call returns or raises; what the thread held is kept for the caller
RsReturn(me, out) == [me EXCEPT !.pc = "idle", !.wake = 0, !.out = out]

\* The query of request
RequestQuery(info, c, now) ==
    LET o1 == AddAnswerAtTime(
                AddQuestion(DNSOutgoing(FLAGS_QR_QUERY, TRUE),
                            DNSQuestion(info.name, TYPE_SRV)),
                GetByDetails(c, info.name, TYPE_SRV), now)
        o2 == AddAnswerAtTime(
                AddQuestion(o1, DNSQuestion(info.name, TYPE_TXT)),
                GetByDetails(c, info.name, TYPE_TXT), now)
    IN  IF info.server # None
        THEN AddAnswerAtTime(
               AddQuestion(o2, DNSQuestion(info.server, TYPE_A)),
               GetByDetails(c, info.server, TYPE_A), now)
        ELSE o2

\* get_service_info(type, name, timeout): ServiceInfo(type, name), which
\* raises when the name does not end with the type; then request up to and
\* with its add_listener.  The caller is the application thread, which is
\* in no other call.  hist.ready: the service of that type and name whose
\* register_service has returned, if any; hist.began: when the call began;
\* hist.woken: a notify_all has ended a wait of the call.
GetServiceInfo(r, type, name, timeout) ==
    /\ rs[r].pc = "idle"
    /\ reg.pc = "idle"
    /\ nresp > 0
    /\ ~gdone
    /\ clock + timeout <= MaxTime
    /\ nresp' = nresp - 1
    /\ LET call == [IdleRs EXCEPT !.type = type, !.name = name,
                                  !.timeout = timeout]
       IN  IF ~EndsWith(name, type)
           THEN /\ rs' = [rs EXCEPT ![r] = RsReturn(call, "BadTypeInNameException")]
                /\ UNCHANGED <<listeners, br, rp, reg, enq, unit>>
           ELSE LET me == [call EXCEPT !.pc = "loop", !.info = NewInfo(type, name),
                                       !.now = clock, !.delay = LISTENER_TIME,
                                       !.next = clock + LISTENER_TIME,
                                       !.last = clock + timeout]
                    st == AddListener(r, DNSQuestion(name, TYPE_ANY),
                                      [cache |-> cache, br |-> br,
                                       rs |-> [rs EXCEPT ![r] = me]], clock)
                    t == NotifyAll([br |-> st.br, rp |-> rp, reg |-> reg,
                                    rs |-> st.rs])
                IN  /\ listeners' = Append(listeners, r)
                    /\ SetThreads(t)
                    /\ enq' = Enqueued(br, st.br)
    /\ hist' = [hist EXCEPT !.ready[r] =
                   IF \E S \in hist.completed : S.type = type /\ S.name = name
                   THEN CHOOSE S \in hist.completed : S.type = type /\ S.name = name
                   ELSE NoInfo,
                   !.began[r] = clock, !.woken[r] = FALSE]
    /\ UNCHANGED <<clock, gdone, cache, sent, calls, services, servicetypes,
                   net, socks, browsers, eng, cl, unit>>

\* The threads after remove_listener(self) of the resolver r, which has
\* become me: the notify_all of remove_listener
AfterRemoveListener(r, me) ==
    NotifyAll([br |-> br, rp |-> rp, reg |-> reg, rs |-> [rs EXCEPT ![r] = me]])

\* One evaluation of request's loop condition and, when it holds, the body
\* up to the wait; when the loop ends or the body returns or raises, the
\* `finally` removes the listener
RsLoop(r) ==
    /\ rs[r].pc = "loop"
    /\ LET me == rs[r]
           out == IF Resolved(me.info) THEN "info"
                  ELSE IF me.last <= me.now THEN "null"
                  ELSE IF me.next <= me.now THEN SendRaises
                  ELSE ""
           due == ~Resolved(me.info) /\ me.last > me.now /\ me.next <= me.now
           dg == Datagram(RequestQuery(me.info, cache, me.now), MDNS_ADDR, MDNS_PORT)
       IN  IF out # ""
           THEN /\ SetThreads(AfterRemoveListener(r, RsReturn(me, out)))
                /\ listeners' = ListRemove(listeners, r)
                /\ UNCHANGED <<sent, net, unit>>
           ELSE /\ sent' = IF due THEN SentAfter(sent, dg) ELSE sent
                /\ net' = IF due THEN NetAfter(net, dg) ELSE net
                /\ rs' = [rs EXCEPT ![r] =
                            [me EXCEPT !.pc = "towait",
                                       !.next = IF due THEN me.now + me.delay ELSE @,
                                       !.delay = IF due THEN me.delay * 2 ELSE @]]
                /\ UNCHANGED <<listeners, br, rp, reg, unit>>
    /\ UNCHANGED <<clock, gdone, cache, calls, enq, nresp, services,
                   servicetypes, socks, browsers, eng, cl, hist, unit>>

\* zc.wait(min(next, last) - now): the thread enters the condition
RsEnterWait(r) ==
    /\ rs[r].pc = "towait"
    /\ rs' = [rs EXCEPT ![r].pc = "waiting",
                        ![r].wake = clock + (Min(rs[r].next, rs[r].last) - rs[r].now)]
    /\ UNCHANGED <<clock, gdone, cache, listeners, sent, br, calls, enq, rp,
                   nresp, services, servicetypes, reg, net, socks, browsers,
                   eng, cl, hist, unit>>

\* The wait ends by its timeout: now = current_time_millis()
RsTimeout(r) ==
    /\ rs[r].pc = "waiting"
    /\ clock >= rs[r].wake
    /\ rs' = [rs EXCEPT ![r].pc = "loop", ![r].wake = 0, ![r].now = clock]
    /\ UNCHANGED <<clock, gdone, cache, listeners, sent, br, calls, enq, rp,
                   nresp, services, servicetypes, reg, net, socks, browsers,
                   eng, cl, hist, unit>>

\* A wake-up by notify_all that is taken for the end of the timeout
RsResumeAtDeadline(r) ==
    /\ rs[r].pc = "woken"
    /\ rs' = [rs EXCEPT ![r].pc = "loop", ![r].now = rs[r].last]
    /\ hist' = [hist EXCEPT !.woken[r] = TRUE]
    /\ UNCHANGED <<clock, gdone, cache, listeners, sent, br, calls, enq, rp,
                   nresp, services, servicetypes, reg, net, socks, browsers,
                   eng, cl, unit>>

\* The wait was ended by a notify_all: now = current_time_millis()
RsResume(r) ==
    /\ rs[r].pc = "woken"
    /\ rs' = [rs EXCEPT ![r].pc = "loop", ![r].now = clock]
    /\ hist' = [hist EXCEPT !.woken[r] = TRUE]
    /\ UNCHANGED <<clock, gdone, cache, listeners, sent, br, calls, enq, rp,
                   nresp, services, servicetypes, reg, net, socks, browsers,
                   eng, cl, unit>>

\* The answer sections of the responses of a peer that serves
\* db._a._tcp.local. on its host db.local. and sends no TXT record for it
PeerInfoAnswers ==
    {<<[DNSService("db._a._tcp.local.", DNS_TTL, 0, 0, 5432, "db.local.", clock)
          EXCEPT !.unique = TRUE],
       [DNSAddress("db.local.", DNS_TTL, PeerAddr, clock) EXCEPT !.unique = TRUE]>>}

\* The peer announces its service once
PeerInfoResponse ==
    \E answers \in PeerInfoAnswers :
        /\ ~InEntries(cache, answers[1])
        /\ ReceiveResponse(answers)
        /\ UNCHANGED hist

-----------------------------------------------------------------------------
(* Zeroconf.close and unregister_all_services: the caller thread            *)

\* The thread of the application that calls close(), outside the call
IdleCl == [pc |-> "idle", now |-> 0, next_time |-> 0, i |-> 0, wake |-> 0,
           out |-> ""]

\* The calls of close() an application makes
MaxCloses == 2

\* A close() that does not look at the flag
NeverDone == FALSE

\* `if not _GLOBAL_DONE` of close(), read when the call begins
AlreadyDone == gdone

RECURSIVE GoodbyeRecords(_, _, _)
\* `for info in self.services.values()` of unregister_all_services: the
\* records of every registered service with ttl 0
GoodbyeRecords(out, svcs, i) ==
    IF i > Len(ServiceKeyOrder) THEN out
    ELSE IF svcs[ServiceKeyOrder[i]] = NoInfo
    THEN GoodbyeRecords(out, svcs, i + 1)
    ELSE GoodbyeRecords(ServiceRecords(out, svcs[ServiceKeyOrder[i]], 0,
                                       svcs[ServiceKeyOrder[i]].server),
                        svcs, i + 1)

GoodbyeAll(svcs) ==
    GoodbyeRecords(DNSOutgoing(FLAGS_QR_RESPONSE + FLAGS_AA, TRUE), svcs, 1)

\* len(self.services) > 0
AnyService(svcs) == \E k \in ServiceKeys : svcs[k] # NoInfo

\* The threads that are about to wait on the condition, or about to look at
\* it, when notify_all is called: the notification passes them by
Unheard ==
    {b \in Browsers : br[b].pc \in {"top", "towait"}}
    \cup (IF rp.pc = "towait" THEN {"reaper"} ELSE {})

\* close(): with the flag set already the call does nothing; otherwise it
\* sets the flag, calls notify_all and engine.notify (the engine is in
\* select, not in a wait on its own condition) and enters
\* unregister_all_services.  cl.out is what the last call raised;
\* hist.closes counts the calls, hist.unheard keeps the threads that the
\* notify_all of the first call passed by.
Close ==
    /\ cl.pc = "idle"
    /\ reg.pc = "idle"
    /\ hist.closes < MaxCloses
    /\ hist' = [hist EXCEPT !.closes = @ + 1,
                            !.unheard = IF AlreadyDone THEN @ ELSE Unheard]
    /\ IF AlreadyDone
       THEN /\ cl' = IdleCl
            /\ UNCHANGED <<gdone, br, rp, reg, rs>>
       ELSE /\ gdone' = TRUE
            /\ SetThreads(NotifyAll(Threads))
            /\ cl' = [IdleCl EXCEPT !.pc = IF AnyService(services) THEN "goodbye"
                                           ELSE "sockets",
                                    !.now = clock, !.next_time = clock]
    /\ UNCHANGED <<clock, cache, listeners, sent, calls, enq, nresp, services,
                   servicetypes, net, socks, browsers, eng, unit>>

\* One iteration of the loop of unregister_all_services: the wait, or one
\* goodbye for all the services.  A send that raises ends close() before
\* the sockets are closed.
CloseGoodbye ==
    /\ cl.pc = "goodbye"
    /\ IF cl.now < cl.next_time
       THEN /\ cl' = [cl EXCEPT !.pc = "waiting",
                                !.wake = clock + (cl.next_time - cl.now)]
            /\ UNCHANGED <<sent, net>>
       ELSE IF SendRaises # ""
       THEN /\ cl' = [IdleCl EXCEPT !.out = SendRaises]
            /\ UNCHANGED <<sent, net>>
       ELSE /\ sent' = SentAfter(sent, Datagram(GoodbyeAll(services),
                                                MDNS_ADDR, MDNS_PORT))
            /\ net' = NetAfter(net, Datagram(GoodbyeAll(services),
                                             MDNS_ADDR, MDNS_PORT))
            /\ cl' = IF cl.i + 1 < 3
                     THEN [cl EXCEPT !.i = @ + 1,
                                     !.next_time = @ + UNREGISTER_TIME]
                     ELSE [cl EXCEPT !.pc = "sockets", !.i = 0, !.now = 0,
                                     !.next_time = 0]
    /\ UNCHANGED <<clock, gdone, cache, listeners, br, calls, enq, rp, nresp,
                   services, servicetypes, reg, rs, socks, browsers, eng,
                   hist, unit>>

\* The wait of close() ends by its timeout
CloseTimeout ==
    /\ cl.pc = "waiting"
    /\ clock >= cl.wake
    /\ cl' = [cl EXCEPT !.pc = "goodbye", !.wake = 0, !.now = clock]
    /\ UNCHANGED <<clock, gdone, cache, listeners, sent, br, calls, enq, rp,
                   nresp, services, servicetypes, reg, rs, net, socks,
                   browsers, eng, hist, unit>>

\* The wait of close() was ended by a notify_all
CloseResume ==
    /\ cl.pc = "woken"
    /\ cl' = [cl EXCEPT !.pc = "goodbye", !.now = clock]
    /\ UNCHANGED <<clock, gdone, cache, listeners, sent, br, calls, enq, rp,
                   nresp, services, servicetypes, reg, rs, net, socks,
                   browsers, eng, hist, unit>>

\* `for s in [self._listen_socket] + self._respond_sockets: s.close()`,
\* and close() returns
CloseSockets ==
    /\ cl.pc = "sockets"
    /\ socks' = [socks EXCEPT !.open = FALSE]
    /\ cl' = IdleCl
    /\ UNCHANGED <<clock, gdone, cache, listeners, sent, br, calls, enq, rp,
                   nresp, services, servicetypes, reg, rs, net, browsers, eng,
                   hist, unit>>

-----------------------------------------------------------------------------
(* Time *)

MaxClock == 1000
MaxJump == 1500
TickSteps == {500}

\* Every thread is blocked (in a wait, in select), not started or ended
Quiet ==
    /\ \A b \in Browsers : br[b].pc \in {"none", "waiting", "exit", "dead"}
    /\ rp.pc \in {"waiting", "exit", "dead"}
    /\ eng.pc \in {"select", "exit"}
    /\ reg.pc \in {"idle", "waiting"}
    /\ \A r \in Resolvers : rs[r].pc \in {"idle", "waiting"}
    /\ cl.pc \in {"idle", "waiting"}
    /\ net = <<>>

\* <<name, alias>> of the PTR records, cached or held by a browser, that
\* are expired at time t
LapsedAt(t) ==
    {<<Entries(cache)[i].name, Entries(cache)[i].alias>> :
        i \in {j \in 1..Len(Entries(cache)) :
                  /\ Entries(cache)[j].type = TYPE_PTR
                  /\ IsExpired(Entries(cache)[j], t)}}
    \cup UNION {{<<br[b].type, br[b].services[k].alias>> :
                   k \in {x \in CacheKeys : /\ br[b].services[x] # NoRec
                                             /\ IsExpired(br[b].services[x], t)}} :
                b \in Browsers}

Tick ==
    /\ Quiet
    /\ \E d \in TickSteps :
         /\ clock + d <= MaxClock
         /\ clock' = clock + d
         /\ hist' = [hist EXCEPT !.lapsed = @ \cup LapsedAt(clock + d)]
    /\ UNCHANGED <<gdone, cache, listeners, sent, br, calls, enq, rp, nresp,
                   services, servicetypes, reg, rs, net, socks, browsers, eng,
                   cl, unit>>

\* The times at which the waits in progress end
WakeTimes ==
    {br[b].wake : b \in {x \in Browsers : br[x].pc = "waiting"}}
    \cup (IF rp.pc = "waiting" THEN {rp.wake} ELSE {})
    \cup (IF reg.pc = "waiting" THEN {reg.wake} ELSE {})
    \cup {rs[r].wake : r \in {x \in Resolvers : rs[x].pc = "waiting"}}
    \cup (IF cl.pc = "waiting" THEN {cl.wake} ELSE {})

\* Nothing happens until the next timeout: the clock moves to it
TimerJumpTo(limit) ==
    /\ Quiet
    /\ \E w \in WakeTimes :
         /\ w <= limit
         /\ \A v \in WakeTimes : clock < w /\ w <= v
         /\ clock' = w
    /\ UNCHANGED <<gdone, cache, listeners, sent, br, calls, enq, rp, nresp,
                   services, servicetypes, reg, rs, net, socks, browsers, eng,
                   cl, hist, unit>>

-----------------------------------------------------------------------------
(* Initial values of the parts of the state *)


\* No function is being called on its own
NoCall == [op |-> "none"]
NewReaper == [pc |-> "towait", now |-> 0, wake |-> 0, idx |-> 1, it |-> <<>>,
              live |-> FALSE, key |-> ""]

\* Zeroconf.__init__
InitNode ==
    /\ clock = 0
    /\ gdone = FALSE
    /\ cache = EmptyCache
    /\ listeners = <<>>
    /\ browsers = <<>>
    /\ services = [k \in ServiceKeys |-> NoInfo]
    /\ servicetypes = [t \in ServiceTypes |-> 0]
    /\ sent = <<>>
    /\ net = <<>>
    /\ br = [b \in Browsers |-> NoBrowser]
    /\ calls = [b \in Browsers |-> <<>>]
    /\ enq = [b \in Browsers |-> <<>>]
    /\ eng = [pc |-> "select"]
    /\ reg = IdleReg
    /\ rs = [r \in Resolvers |-> IdleRs]
    /\ cl = IdleCl
    /\ hist = [last |-> <<>>, lapsed |-> {}, heard |-> [p \in PeerPtrs |-> 0],
               completed |-> {}, ready |-> [r \in Resolvers |-> NoInfo],
               began |-> [r \in Resolvers |-> 0],
               woken |-> [r \in Resolvers |-> FALSE],
               closes |-> 0, unheard |-> {}, caught |-> {}, after |-> {}]

-----------------------------------------------------------------------------
(* Browsing: one browser, the peer's responses, the reaper, time *)

\* The node has been up for 9.5 s with no traffic: the reaper is in its
\* wait, which ends 10 s after it began
InitBrowse ==
    /\ InitNode
    /\ unit = NoCall
    /\ socks = [open |-> TRUE, loopback |-> FALSE, short |-> FALSE]
    /\ nresp = MaxResp
    /\ rp = [NewReaper EXCEPT !.pc = "waiting", !.wake = BROWSER_TIME]

NextBrowse ==
    \/ \E b \in Browsers : AddServiceListener(b)
    \/ \E b \in Browsers : BrowserTop(b)
    \/ \E b \in Browsers : BrowserEnterWait(b)
    \/ \E b \in Browsers : BrowserTimeout(b)
    \/ \E b \in Browsers : BrowserCheck(b)
    \/ \E b \in Browsers : BrowserAct(b)
    \/ PeerResponse
    \/ ReaperEnterWait
    \/ ReaperTimeout
    \/ ReaperCheck
    \/ ReaperSweep
    \/ Tick

SpecBrowse == InitBrowse /\ [][NextBrowse]_vars

-----------------------------------------------------------------------------
(* Browsing with listeners that are removed again *)

NextUnlisten ==
    \/ \E b \in Browsers : AddServiceListener(b)
    \/ \E b \in Browsers : RemoveServiceListener(b)
    \/ \E b \in Browsers : BrowserTop(b)
    \/ \E b \in Browsers : BrowserEnterWait(b)
    \/ \E b \in Browsers : BrowserTimeout(b)
    \/ \E b \in Browsers : BrowserCheck(b)
    \/ \E b \in Browsers : BrowserAct(b)
    \/ PeerResponse
    \/ ReaperEnterWait
    \/ ReaperTimeout
    \/ ReaperCheck
    \/ ReaperSweep
    \/ Tick

SpecUnlisten == InitBrowse /\ [][NextUnlisten]_vars

-----------------------------------------------------------------------------
(* The reaper's sweep: a browser listens, the peer's records are cached and *)
(* expire, and the reaper sweeps the cache at the end of its first wait.    *)
(* No response is handled while a sweep is in progress.                     *)

InitReap ==
    /\ InitNode
    /\ unit = NoCall
    /\ socks = [open |-> TRUE, loopback |-> FALSE, short |-> FALSE]
    /\ nresp = MaxResp
    /\ rp = [NewReaper EXCEPT !.pc = "waiting", !.wake = REAPER_PERIOD]

\* A response of the peer that arrives while the reaper waits
ResponseBetweenSweeps == rp.pc = "waiting" /\ PeerResponse

NextReap ==
    \/ \E b \in Browsers : AddServiceListener(b)
    \/ \E b \in Browsers : BrowserTop(b)
    \/ \E b \in Browsers : BrowserEnterWait(b)
    \/ \E b \in Browsers : BrowserTimeout(b)
    \/ \E b \in Browsers : BrowserCheck(b)
    \/ \E b \in Browsers : BrowserAct(b)
    \/ ResponseBetweenSweeps
    \/ ReaperEnterWait
    \/ ReaperTimeout
    \/ ReaperCheck
    \/ ReaperSweep
    \/ TimerJumpTo(REAPER_PERIOD)

SpecReap == InitReap /\ [][NextReap]_vars

-----------------------------------------------------------------------------
(* The registry: the application registers and unregisters services while   *)
(* a peer sends queries and responses                                        *)

MaxEvents == 3

InitRegistry ==
    /\ InitNode
    /\ unit = NoCall
    /\ socks = [open |-> TRUE, loopback |-> FALSE, short |-> FALSE]
    /\ nresp = MaxEvents
    /\ rp = [NewReaper EXCEPT !.pc = "waiting", !.wake = REAPER_PERIOD]

NextRegistry ==
    \/ \E S \in Infos : RegisterService(S)
    \/ \E S \in Infos : UnregisterService(S)
    \/ RegCheck
    \/ RegTimeout
    \/ RegResume
    \/ RegSend
    \/ PeerQuery
    \/ RivalResponse
    \/ ReaperEnterWait
    \/ ReaperCheck
    \/ ReaperSweep
    \/ TimerJumpTo(MaxJump)

SpecRegistry == InitRegistry /\ [][NextRegistry]_vars

-----------------------------------------------------------------------------
(* Service type enumeration: the application registers and unregisters      *)
(* services while a peer asks which service types the node has              *)

NextMeta ==
    \/ \E S \in Infos : RegisterService(S)
    \/ \E S \in Infos : UnregisterService(S)
    \/ RegCheck
    \/ RegTimeout
    \/ RegSend
    \/ PeerMetaQuery
    \/ TimerJumpTo(MaxJump)

SpecMeta == InitRegistry /\ [][NextMeta]_vars

-----------------------------------------------------------------------------
(* handle_query called on its own: the application registers and            *)
(* unregisters services, and queries that carry known answers are handled   *)

\* A second host name with the address of the first
OtherHost == "Other.local."

\* The questions of the queries: the type of a service, its instance name
\* for SRV and for every type, and its host name
QueryQuestions ==
    {DNSQuestion(TypeA, TYPE_PTR), DNSQuestion(SWeb.name, TYPE_SRV),
     DNSQuestion(SWeb.name, TYPE_ANY), DNSQuestion(SWeb.server, TYPE_A)}

\* The ttl of a known answer: half of _DNS_TTL, and just above it
KnownTtls == {DNS_TTL \div 2, DNS_TTL \div 2 + 1}

\* The known answers a query carries: none, or one record as DNSIncoming
\* parsed it: the PTR, SRV or A record of the service, a PTR record of another
\* type with the same alias, or the A record of another host with the same
\* address
KnownRecords ==
    {<<>>}
    \cup {<<r>> : r \in
            UNION {{DNSPointer(TypeA, t, SWeb.name, 0),
                    DNSPointer(TypeB, t, SWeb.name, 0),
                    DNSService(SWeb.name, t, SWeb.priority, SWeb.weight,
                               SWeb.port, SWeb.server, 0),
                    DNSAddress(SWeb.server, t, SWeb.address, 0),
                    DNSAddress(OtherHost, t, SWeb.address, 0)} :
                   t \in KnownTtls}}

\* The queries handled: one question, sent from the mDNS port (answered by
\* multicast) or from another port (answered by unicast)
HandledQueries ==
    {Query(7, <<q>>, known, port) :
        q \in QueryQuestions, known \in KnownRecords,
        port \in {MDNS_PORT, DNS_PORT}}

\* Zeroconf.handle_query(msg, addr, port) and the send it ends with
CallHandleQuery(msg) ==
    /\ nresp > 0
    /\ SendRaises = ""
    /\ LET dgs == HandleQuery(msg, msg.addr, msg.port, services, servicetypes,
                              clock)
       IN  /\ sent' = SendAll(sent, dgs, FALSE)
           /\ net' = SendAll(net, dgs, TRUE)
           /\ unit' = [op |-> "handle_query", msg |-> msg,
                       services |-> services, servicetypes |-> servicetypes,
                       now |-> clock, sent |-> dgs]
    /\ nresp' = nresp - 1
    /\ UNCHANGED <<clock, gdone, cache, listeners, br, calls, enq, rp,
                   services, servicetypes, reg, rs, socks, browsers, eng, cl,
                   hist>>

NextQuery ==
    \/ RegisterService(SWeb)
    \/ UnregisterService(SWeb)
    \/ RegCheck
    \/ RegTimeout
    \/ RegSend
    \/ \E msg \in HandledQueries : CallHandleQuery(msg)
    \/ TimerJumpTo(MaxJump)

SpecQuery == InitRegistry /\ [][NextQuery]_vars

-----------------------------------------------------------------------------
(* Resolving on a node that hears itself: one application thread registers  *)
(* services and looks services up, call after call, while a peer announces  *)
(* a service of its own                                                     *)

InitResolve ==
    /\ InitNode
    /\ unit = NoCall
    /\ socks \in {[open |-> TRUE, loopback |-> TRUE, short |-> b] : b \in BOOLEAN}
    /\ nresp = MaxResp
    /\ rp = [NewReaper EXCEPT !.pc = "waiting", !.wake = REAPER_PERIOD]

NextResolve ==
    \/ \E S \in Resolvables :
          /\ services[Lower(S.name)] = NoInfo
          /\ \A r \in Resolvers : rs[r].pc = "idle"
          /\ RegisterService(S)
    \/ RegCheck
    \/ RegTimeout
    \/ RegResume
    \/ RegSend
    \/ EngineReadQuery
    \/ EngineReadResponse
    \/ PeerInfoResponse
    \/ \E r \in Resolvers : \E l \in Lookups : \E timeout \in Timeouts :
          GetServiceInfo(r, l[1], l[2], timeout)
    \/ \E r \in Resolvers : RsLoop(r)
    \/ \E r \in Resolvers : RsEnterWait(r)
    \/ \E r \in Resolvers : RsTimeout(r)
    \/ \E r \in Resolvers : RsResume(r)
    \/ ReaperRound
    \/ TimerJumpTo(MaxTime)

SpecResolve == InitResolve /\ [][NextResolve]_vars

\* The steps of the node's threads and of the clock, as against the calls
\* of the application and the datagrams of the peer
ResolveRuns ==
    \/ RegCheck
    \/ RegTimeout
    \/ RegResume
    \/ RegSend
    \/ EngineReadQuery
    \/ \E r \in Resolvers : RsLoop(r)
    \/ \E r \in Resolvers : RsEnterWait(r)
    \/ \E r \in Resolvers : RsTimeout(r)
    \/ \E r \in Resolvers : RsResume(r)
    \/ ReaperRound
    \/ TimerJumpTo(MaxTime)

\* The engine taking a response off the listen socket, told by the socket
\* alone: the one step that shortens the socket's queue by a response
EngineTakesResponse ==
    /\ eng.pc = "select"
    /\ socks.open
    /\ net # <<>>
    /\ ~IsQuery(DNSIncoming(Head(net).pkt, clock))
    /\ net' = Tail(net)

\* A thread that can run is run in the end, and time passes
FairResolve ==
    SpecResolve /\ WF_vars(ResolveRuns) /\ WF_net(EngineTakesResponse)

-----------------------------------------------------------------------------
(* Functions called on their own, on a node no thread of which runs *)

\* Every variable of the node: a function called on its own leaves them
node == <<clock, gdone, cache, listeners, sent, br, calls, enq, rp, nresp,
          services, servicetypes, reg, rs, net, socks, browsers, eng, cl,
          hist>>

\* A node no thread of which has run
InitIdle ==
    /\ InitNode
    /\ socks = [open |-> TRUE, loopback |-> FALSE, short |-> FALSE]
    /\ nresp = 0
    /\ rp = NewReaper

-----------------------------------------------------------------------------
(* The wire format, byte by byte.  A packet is a sequence of numbers in     *)
(* 0..255.  The names, texts and addresses the model puts on the wire, and  *)
(* their bytes, are tabulated; a writer is the part of a DNSOutgoing that   *)
(* packet() fills: data (the list of byte strings), size and names.         *)

\* name.split('.') with the empty last part dropped
\* Labels of 63, 64 and 65 letters
Label63 == "aaaaaaaaaaaaaaaaaaaaaaaaaaaaaaaaaaaaaaaaaaaaaaaaaaaaaaaaaaaaaaa"
Label64 == "aaaaaaaaaaaaaaaaaaaaaaaaaaaaaaaaaaaaaaaaaaaaaaaaaaaaaaaaaaaaaaaa"
Label65 == "aaaaaaaaaaaaaaaaaaaaaaaaaaaaaaaaaaaaaaaaaaaaaaaaaaaaaaaaaaaaaaaaa"
LongLabels == {Label63, Label64, Label65}

\* name.split('.') without the empty last part
WireLabels(name) ==
    CASE name = "_a._tcp.local." -> <<"_a", "_tcp", "local">>
      [] \E l \in LongLabels : name = l \o ".local." ->
            <<CHOOSE l \in LongLabels : name = l \o ".local.", "local">>
      [] \E l \in LongLabels : name = "host." \o l \o "." ->
            <<"host", CHOOSE l \in LongLabels : name = "host." \o l \o ".">>
      [] name = "_b._tcp.local." -> <<"_b", "_tcp", "local">>
      [] name = "Web._a._tcp.local." -> <<"Web", "_a", "_tcp", "local">>
      [] name = "host.local." -> <<"host", "local">>
      [] OTHER -> <<>>

WireNames ==
    {"_a._tcp.local.", "_b._tcp.local.", "Web._a._tcp.local.", "host.local."}
    \cup {l \o ".local." : l \in LongLabels}
    \cup {"host." \o l \o "." : l \in LongLabels}

\* label.encode('utf-8')
Utf8(label) ==
    CASE label = "_a" -> <<95, 97>>
      [] label = "_b" -> <<95, 98>>
      [] label = "_tcp" -> <<95, 116, 99, 112>>
      [] label = "local" -> <<108, 111, 99, 97, 108>>
      [] label = "Web" -> <<87, 101, 98>>
      [] label = "host" -> <<104, 111, 115, 116>>
      [] label = Label63 -> [i \in 1..63 |-> 97]
      [] label = Label64 -> [i \in 1..64 |-> 97]
      [] label = Label65 -> [i \in 1..65 |-> 97]
      [] OTHER -> <<>>

WireLabelSet == {"_a", "_b", "_tcp", "local", "Web", "host"} \cup LongLabels

\* The bytes of the text blobs and of the packed addresses
TextBytes(text) ==
    IF text = "path=/" THEN <<6, 112, 97, 116, 104, 61, 47>> ELSE <<>>

AddressBytes(address) ==
    IF address = "127.0.0.1" THEN <<127, 0, 0, 1>> ELSE <<192, 0, 2, 7>>

CLASS_UNIQUE == 32768
CLASS_MASK == 32767
MAX_LABEL == 64

NewWriter ==
    [data |-> <<>>, size |-> 12, names |-> [n \in WireNames |-> -1],
     wrote |-> <<>>, err |-> ""]

\* DNSOutgoing.pack, and write_string's append: one more byte string
Pack(w, bytes) ==
    IF w.err # "" THEN w
    ELSE [w EXCEPT !.data = Append(@, bytes), !.size = @ + Len(bytes)]

\* write_byte: int2byte takes 0..255 only
WriteByte(w, value) ==
    IF w.err # "" THEN w
    ELSE IF value > 255 THEN [w EXCEPT !.err = "struct.error"]
    ELSE Pack(w, <<value>>)

ShortBytes(value) == <<(value \div 256) % 256, value % 256>>

WriteShort(w, value) ==
    IF w.err # "" THEN w
    ELSE IF value > 65535 THEN [w EXCEPT !.err = "struct.error"]
    ELSE Pack(w, ShortBytes(value))

WriteInt(w, value) ==
    Pack(w, <<(value \div 16777216) % 256, (value \div 65536) % 256,
              (value \div 256) % 256, value % 256>>)

WriteString(w, bytes) == Pack(w, bytes)

\* insert_short: the short becomes the item at list index `index`
InsertShort(w, index, value) ==
    IF w.err # "" THEN w
    ELSE [w EXCEPT !.data = SubSeq(@, 1, index) \o <<ShortBytes(value)>>
                              \o SubSeq(@, index + 1, Len(@)),
                   !.size = @ + 2]

WriteUtf(w, label) ==
    IF w.err # "" THEN w
    ELSE IF Len(Utf8(label)) > MAX_LABEL
    THEN [w EXCEPT !.err = "NamePartTooLongException"]
    ELSE WriteString(WriteByte(w, Len(Utf8(label))), Utf8(label))

RECURSIVE WriteParts(_, _, _)
WriteParts(w, parts, i) ==
    IF i > Len(parts) THEN w
    ELSE WriteParts(WriteUtf(w, parts[i]), parts, i + 1)

\* index | 0xC0 on the high byte of an offset
Or192(x) == (x \div 256) * 256 + 192 + (x % 64)

\* DNSOutgoing.write_name.  w.wrote keeps, for every name written, the
\* value of size at which it was written (history, not program state).
WriteName(w, name) ==
    IF w.err # "" THEN w
    ELSE IF w.names[name] # -1
    THEN LET w1 == [w EXCEPT !.wrote = Append(@, [name |-> name, at |-> w.size,
                                                  pointer |-> TRUE])]
         IN  WriteByte(WriteByte(w1, Or192(w.names[name] \div 256)),
                       w.names[name] % 256)
    ELSE LET w1 == [w EXCEPT !.names[name] = w.size,
                             !.wrote = Append(@, [name |-> name, at |-> w.size,
                                                  pointer |-> FALSE])]
         IN  WriteByte(WriteParts(w1, WireLabels(name), 1), 0)

WriteQuestion(w, question) ==
    WriteShort(WriteShort(WriteName(w, question.name), question.type),
               question.class)

\* record.write(out) of each record class
RecordWrite(w, record) ==
    CASE record.py = "DNSAddress" -> WriteString(w, AddressBytes(record.address))
      [] record.py = "DNSPointer" -> WriteName(w, record.alias)
      [] record.py = "DNSText" -> WriteString(w, TextBytes(record.text))
      [] record.py = "DNSService" ->
            WriteName(WriteShort(WriteShort(WriteShort(w, record.priority),
                                            record.weight), record.port),
                      record.server)
      [] OTHER -> [w EXCEPT !.err = "AbstractMethodException"]

RECURSIVE JoinedLen(_, _)
\* len(b''.join(data[index:])), index counted from 0
JoinedLen(data, index) ==
    IF index >= Len(data) THEN 0
    ELSE Len(data[index + 1]) + JoinedLen(data, index + 1)

\* write_record with no room kept for the length short while the payload
\* is written
WriteRecordUnadjusted(w, multicast, record, now) ==
    LET w1 == WriteShort(WriteName(w, record.name), record.type)
        w2 == WriteShort(w1, IF record.unique /\ multicast
                             THEN record.class + CLASS_UNIQUE
                             ELSE record.class)
        w3 == WriteInt(w2, IF now = 0 THEN record.ttl
                           ELSE GetRemainingTtl(record, now))
        index == Len(w3.data)
        w5 == RecordWrite(w3, record)
    IN  InsertShort(w5, index, JoinedLen(w5.data, index))

\* DNSOutgoing.write_record
WriteRecord(w, multicast, record, now) ==
    LET w1 == WriteShort(WriteName(w, record.name), record.type)
        w2 == WriteShort(w1, IF record.unique /\ multicast
                             THEN record.class + CLASS_UNIQUE
                             ELSE record.class)
        w3 == WriteInt(w2, IF now = 0 THEN record.ttl
                           ELSE GetRemainingTtl(record, now))
        index == Len(w3.data)
        w4 == [w3 EXCEPT !.size = @ + 2]
        w5 == RecordWrite(w4, record)
        w6 == [w5 EXCEPT !.size = @ - 2]
    IN  InsertShort(w6, index, JoinedLen(w6.data, index))

RECURSIVE WriteQuestions(_, _, _)
WriteQuestions(w, questions, i) ==
    IF i > Len(questions) THEN w
    ELSE WriteQuestions(WriteQuestion(w, questions[i]), questions, i + 1)

RECURSIVE WriteAnswers(_, _, _, _)
WriteAnswers(w, multicast, answers, i) ==
    IF i > Len(answers) THEN w
    ELSE WriteAnswers(WriteRecord(w, multicast, answers[i].rec, answers[i].now),
                      multicast, answers, i + 1)

RECURSIVE WriteRecords(_, _, _, _)
WriteRecords(w, multicast, records, i) ==
    IF i > Len(records) THEN w
    ELSE WriteRecords(WriteRecord(w, multicast, records[i], 0), multicast,
                      records, i + 1)

RECURSIVE Join(_, _)
\* b''.join(data)
Join(data, i) ==
    IF i > Len(data) THEN <<>> ELSE data[i] \o Join(data, i + 1)

\* DNSOutgoing.packet: the writer once every part is written
PacketWriter(out) ==
    LET w1 == WriteQuestions(NewWriter, out.questions, 1)
        w2 == WriteAnswers(w1, out.multicast, out.answers, 1)
        w3 == WriteRecords(w2, out.multicast, out.authorities, 1)
        w4 == WriteRecords(w3, out.multicast, out.additionals, 1)
        w5 == InsertShort(w4, 0, Len(out.additionals))
        w6 == InsertShort(w5, 0, Len(out.authorities))
        w7 == InsertShort(w6, 0, Len(out.answers))
        w8 == InsertShort(w7, 0, Len(out.questions))
        w9 == InsertShort(w8, 0, out.flags)
    IN  InsertShort(w9, 0, IF out.multicast THEN 0 ELSE out.id)

\* The bytes packet() returns
PacketData(out) == Join(PacketWriter(out).data, 1)

\* The labels of a name as bytes, and the inverse tables the reader uses:
\* read_utf of the labels joined with '.', the text blob, the address
NameBytes(name) ==
    [i \in 1..Len(WireLabels(name)) |-> Utf8(WireLabels(name)[i])]

NameOf(labels) ==
    IF \E n \in WireNames : NameBytes(n) = labels
    THEN CHOOSE n \in WireNames : NameBytes(n) = labels
    ELSE "?"

TextOf(bytes) == IF bytes = TextBytes("path=/") THEN "path=/"
                 ELSE IF bytes = <<>> THEN "" ELSE "?"

AddressOf(bytes) ==
    IF bytes = AddressBytes("127.0.0.1") THEN "127.0.0.1"
    ELSE IF bytes = AddressBytes("192.0.2.7") THEN "192.0.2.7" ELSE "?"

\* data[a:b], offsets counted from 0
Slice(data, a, b) == SubSeq(data, a + 1, Min(b, Len(data)))

\* struct.unpack of '!H' and of '!i' at an offset that leaves room for them
ShortAt(data, off) == data[off + 1] * 256 + data[off + 2]

IntAt(data, off) ==
    LET high == IF data[off + 1] >= 128 THEN data[off + 1] - 256
                ELSE data[off + 1]
    IN  ((high * 256 + data[off + 2]) * 256 + data[off + 3]) * 256
        + data[off + 4]

RECURSIVE ReadNameLoop(_, _, _, _, _)
\* The loop of DNSIncoming.read_name: off is where the next length byte is
ReadNameLoop(data, off, next, first, labels) ==
    IF off >= Len(data)
    THEN [labels |-> labels, offset |-> off, err |-> "IndexError"]
    ELSE LET length == data[off + 1]
         IN  IF length = 0
             THEN [labels |-> labels,
                   offset |-> IF next >= 0 THEN next ELSE off + 1, err |-> ""]
             ELSE IF length \div 64 = 0
             THEN ReadNameLoop(data, off + 1 + length, next, first,
                               Append(labels,
                                      Slice(data, off + 1, off + 1 + length)))
             ELSE IF length \div 64 = 3
             THEN IF off + 1 >= Len(data)
                  THEN [labels |-> labels, offset |-> off, err |-> "IndexError"]
                  ELSE LET target == (length % 64) * 256 + data[off + 2]
                       IN  IF target >= first
                           THEN [labels |-> labels, offset |-> off,
                                 err |-> "Exception"]
                           ELSE ReadNameLoop(data, target,
                                             IF next < 0 THEN off + 2 ELSE next,
                                             target, labels)
             ELSE [labels |-> labels, offset |-> off, err |-> "Exception"]

\* No name was read
NoRead == [name |-> "", offset |-> 0, err |-> "none"]

\* The twelve bytes of a header with no counts
Header == [i \in 1..12 |-> 0]

\* DNSIncoming.read_name at an offset
ReadName(data, off) ==
    LET r == ReadNameLoop(data, off, -1, off, <<>>)
    IN  [name |-> NameOf(r.labels), offset |-> r.offset, err |-> r.err]

\* One pass of read_questions' loop
ReadQuestion(data, off) ==
    LET n == ReadName(data, off)
    IN  IF n.err # "" THEN [q |-> DNSQuestion("?", 0), offset |-> off, err |-> n.err]
        ELSE IF n.offset + 4 > Len(data)
        THEN [q |-> DNSQuestion("?", 0), offset |-> off, err |-> "struct.error"]
        ELSE [q |-> [name |-> n.name, type |-> ShortAt(data, n.offset),
                     class |-> ShortAt(data, n.offset + 2) % (CLASS_MASK + 1)],
              offset |-> n.offset + 4, err |-> ""]

\* DNSEntry.__init__ and DNSRecord.__init__ on what was read
ReadEntry(r, class, ttl, now) ==
    [r EXCEPT !.class = class % (CLASS_MASK + 1), !.unique = class >= CLASS_UNIQUE,
              !.ttl = ttl, !.created = now]

\* One pass of read_others' loop, for the types the model writes; a record
\* of any other type is skipped by its length
ReadRecord(data, off, now) ==
    LET n == ReadName(data, off)
        o == n.offset + 10
        none == [rec |-> NoRec, offset |-> off, err |-> "struct.error"]
    IN  IF n.err # "" THEN [none EXCEPT !.err = n.err]
        ELSE IF o > Len(data) THEN none
        ELSE LET type == ShortAt(data, n.offset)
                 class == ShortAt(data, n.offset + 2)
                 ttl == IntAt(data, n.offset + 4)
                 length == ShortAt(data, n.offset + 8)
             IN  IF type = TYPE_A
                 THEN [rec |-> ReadEntry(DNSAddress(n.name, 0,
                                  AddressOf(Slice(data, o, o + 4)), 0),
                                  class, ttl, now),
                       offset |-> o + 4, err |-> ""]
                 ELSE IF type = TYPE_PTR
                 THEN LET a == ReadName(data, o)
                      IN  IF a.err # "" THEN [none EXCEPT !.err = a.err]
                          ELSE [rec |-> ReadEntry(DNSPointer(n.name, 0, a.name, 0),
                                                  class, ttl, now),
                                offset |-> a.offset, err |-> ""]
                 ELSE IF type = TYPE_TXT
                 THEN [rec |-> ReadEntry(DNSText(n.name, 0,
                                  TextOf(Slice(data, o, o + length)), 0),
                                  class, ttl, now),
                       offset |-> o + length, err |-> ""]
                 ELSE IF type = TYPE_SRV
                 THEN IF o + 6 > Len(data) THEN none
                      ELSE LET a == ReadName(data, o + 6)
                           IN  IF a.err # "" THEN [none EXCEPT !.err = a.err]
                               ELSE [rec |-> ReadEntry(DNSService(n.name, 0,
                                                ShortAt(data, o),
                                                ShortAt(data, o + 2),
                                                ShortAt(data, o + 4), a.name, 0),
                                                class, ttl, now),
                                     offset |-> a.offset, err |-> ""]
                 ELSE [rec |-> NoRec, offset |-> o + length, err |-> ""]

RECURSIVE ReadQuestions(_, _, _, _)
\* DNSIncoming.read_questions: n more questions from offset off
ReadQuestions(data, off, n, questions) ==
    IF n = 0 THEN [questions |-> questions, offset |-> off, err |-> ""]
    ELSE LET q == ReadQuestion(data, off)
         IN  IF q.err # ""
             THEN [questions |-> questions, offset |-> off, err |-> q.err]
             ELSE ReadQuestions(data, q.offset, n - 1, Append(questions, q.q))

RECURSIVE ReadOthers(_, _, _, _, _)
\* The loop of DNSIncoming.read_others: n more records from offset off
ReadOthers(data, off, n, answers, now) ==
    IF n = 0 THEN [answers |-> answers, offset |-> off, err |-> ""]
    ELSE LET r == ReadRecord(data, off, now)
         IN  IF r.err # ""
             THEN [answers |-> answers, offset |-> off, err |-> r.err]
             ELSE ReadOthers(data, r.offset, n - 1,
                             IF r.rec = NoRec THEN answers
                             ELSE Append(answers, r.rec), now)

\* n of read_others: num_answers + num_authorities + num_additionals, where
\* num_authorities is still the 0 of __init__, read_header having stored
\* the header's count as num_quthorities
CountOthers(data) == ShortAt(data, 6) + 0 + ShortAt(data, 10)

\* DNSIncoming(data) at time now, from the bytes
ParseData(data, now) ==
    IF Len(data) < 12
    THEN [id |-> 0, flags |-> 0, questions |-> <<>>, answers |-> <<>>,
          err |-> "struct.error"]
    ELSE LET q == ReadQuestions(data, 12, ShortAt(data, 4), <<>>)
             a == IF q.err # "" THEN [answers |-> <<>>, offset |-> 0, err |-> q.err]
                  ELSE ReadOthers(data, q.offset, CountOthers(data), <<>>, now)
         IN  [id |-> ShortAt(data, 0), flags |-> ShortAt(data, 2),
              questions |-> q.questions, answers |-> a.answers, err |-> a.err]

-----------------------------------------------------------------------------
(* Faults: datagrams that do not parse, a socket that stops taking whole   *)
(* packets, a listener of the application whose update_record raises        *)

\* Zeroconf.add_listener(listener, None) for the listener that raises
AddRaisingListener ==
    /\ ~gdone
    /\ ~Raises(listeners)
    /\ listeners' = Append(listeners, Raiser)
    /\ SetThreads(NotifyAll(Threads))
    /\ cl' = WakeThread(cl)
    /\ UNCHANGED <<clock, gdone, cache, sent, calls, enq, nresp, services,
                   servicetypes, net, socks, browsers, eng, hist, unit>>

\* From now on sendto takes less than the whole packet
SocketFails ==
    /\ socks.open
    /\ ~socks.short
    /\ socks' = [socks EXCEPT !.short = TRUE]
    /\ UNCHANGED <<clock, gdone, cache, listeners, sent, br, calls, enq, rp,
                   nresp, services, servicetypes, reg, rs, net, browsers, eng,
                   cl, hist, unit>>

\* The bytes of a query and of a response of the peer
QueryBytes(type) ==
    PacketData(AddQuestion(DNSOutgoing(FLAGS_QR_QUERY, TRUE),
                           DNSQuestion(type, TYPE_PTR)))

ResponseBytes ==
    PacketData(AddAnswerAtTime(DNSOutgoing(FLAGS_QR_RESPONSE + FLAGS_AA, TRUE),
                               DNSPointer(TypeA, 1, "Web._a._tcp.local.", 0), 0))

\* The datagrams that arrive: queries for a type the node serves and for
\* one it does not, a response, and a response that lost its last byte
PeerData ==
    {QueryBytes(TypeA), QueryBytes(TypeB), ResponseBytes,
     SubSeq(ResponseBytes, 1, Len(ResponseBytes) - 1)}

\* hist.after when a datagram of a kind was dispatched: with everything the
\* engine had caught before
DispatchedAfter(kind) ==
    [hist EXCEPT !.after = @ \cup {<<c, kind>> : c \in hist.caught}]

\* What handle_query sends for a query of the peer from the mDNS port
RepliesTo(msg) ==
    QueryReplies(Query(msg.id, msg.questions, msg.answers, MDNS_PORT),
                 PeerAddr, MDNS_PORT, services, servicetypes, clock)

\* handle_response up to the exception of the listener that raises: the
\* first answer is cached, the listeners before that one are called
UntilRaise(answers) ==
    HandleAnswer(CalledFirst(listeners),
                 [cache |-> cache, br |-> br, rs |-> rs], clock, answers[1])

\* Listener.handle_read from the parsed message on, and the `except
\* Exception` of Engine.run around it.  What raises: DNSIncoming(data) on
\* bytes that do not parse (msg.err), send in handle_query, a listener's
\* update_record in handle_response (before notify_all).  hist.caught: what
\* the engine has caught; hist.after: what it has dispatched since.
HandleRead(msg, replies, st, a) ==
    IF msg.err # ""
    THEN /\ eng' = EngineCatches(eng, msg.err)
         /\ hist' = [hist EXCEPT !.caught = @ \cup {"DNSIncoming"}]
         /\ UNCHANGED <<cache, br, rp, reg, rs, cl, enq, sent, net>>
    ELSE IF IsQuery(msg)
    THEN IF replies # <<>> /\ SendRaises # ""
         THEN /\ eng' = EngineCatches(eng, SendRaises)
              /\ hist' = [hist EXCEPT !.caught = @ \cup {"handle_query"}]
              /\ UNCHANGED <<cache, br, rp, reg, rs, cl, enq, sent, net>>
         ELSE /\ eng' = EngineCatches(eng, "")
              /\ sent' = SendAll(sent, replies, FALSE)
              /\ net' = SendAll(net, replies, TRUE)
              /\ hist' = DispatchedAfter("query")
              /\ UNCHANGED <<cache, br, rp, reg, rs, cl, enq>>
    ELSE IF msg.answers # <<>> /\ Raises(listeners)
    THEN /\ eng' = EngineCatches(eng, "Exception")
         /\ cache' = st.cache
         /\ br' = st.br
         /\ rs' = st.rs
         /\ enq' = Enqueued(br, st.br)
         /\ hist' = [hist EXCEPT !.caught = @ \cup {"update_record"}]
         /\ UNCHANGED <<rp, reg, cl, sent, net>>
    ELSE /\ eng' = EngineCatches(eng, "")
         /\ cache' = a.cache
         /\ SetThreads(a.t)
         /\ cl' = IF msg.answers # <<>> THEN WakeThread(cl) ELSE cl
         /\ enq' = Enqueued(br, a.t.br)
         /\ hist' = DispatchedAfter("response")
         /\ UNCHANGED <<sent, net>>

\* The message DNSIncoming builds, handed to the handler with what
\* handle_query and handle_response make of it
Dispatch(msg) ==
    HandleRead(msg, RepliesTo(msg), UntilRaise(msg.answers),
               AfterResponse(msg.answers))

\* Listener.handle_read for a datagram of the peer
EngineRead(data) ==
    /\ eng.pc = "select"
    /\ socks.open
    /\ nresp > 0
    /\ nresp' = nresp - 1
    /\ Dispatch(ParseData(data, clock))
    /\ UNCHANGED <<clock, gdone, listeners, calls, services, servicetypes,
                   socks, browsers, unit>>

\* The datagrams the engine is given
MaxDatagrams == 5

InitEngine ==
    /\ InitNode
    /\ unit = NoCall
    /\ socks = [open |-> TRUE, loopback |-> FALSE, short |-> FALSE]
    /\ nresp = MaxDatagrams
    /\ rp = [NewReaper EXCEPT !.pc = "waiting", !.wake = REAPER_PERIOD]

\* The application is outside register_service: what else happens to the
\* node happens between its calls, so that nothing wakes the caller
Outside == reg.pc = "idle"

NextEngine ==
    \/ RegisterService(SWeb)
    \/ RegCheck
    \/ RegTimeout
    \/ RegSend
    \/ TimerJumpTo(MaxJump)
    \/ Outside /\ AddRaisingListener
    \/ Outside /\ SocketFails
    \/ Outside /\ \E data \in PeerData : EngineRead(data)
    \/ EngineSelectReturns
    \/ ReaperEnterWait
    \/ ReaperCheck
    \/ ReaperSweep
    \/ Close
    \/ CloseGoodbye
    \/ CloseTimeout
    \/ CloseResume
    \/ CloseSockets

SpecEngine == InitEngine /\ [][NextEngine]_vars

-----------------------------------------------------------------------------
(* A browser and the reaper on a node with faults *)

InitFaults == InitBrowse

NextFaults ==
    \/ \E b \in Browsers : AddServiceListener(b)
    \/ \E b \in Browsers : BrowserTop(b)
    \/ \E b \in Browsers : BrowserEnterWait(b)
    \/ \E b \in Browsers : BrowserTimeout(b)
    \/ \E b \in Browsers : BrowserCheck(b)
    \/ \E b \in Browsers : BrowserAct(b)
    \/ \E b \in Browsers : BrowserCallbackRaises(b)
    \/ AddRaisingListener
    \/ SocketFails
    \/ \E data \in PeerData : EngineRead(data)
    \/ ReaperEnterWait
    \/ ReaperTimeout
    \/ ReaperCheck
    \/ ReaperSweep
    \/ Tick

SpecFaults == InitFaults /\ [][NextFaults]_vars

-----------------------------------------------------------------------------
(* Shutdown of a node with a browser: the threads after close()            *)

\* A response of the peer that announces one service for a second
PeerAnnounces ==
    /\ ReceiveResponse(<<PeerPtr(TypeA, "Web._a._tcp.local.", 1)>>)
    /\ UNCHANGED hist

\* The latest timeout a thread is waiting for
LatestWake == CHOOSE w \in WakeTimes \cup {0} : \A v \in WakeTimes : v <= w

\* Time moves to the next timeout: up to MaxJump while the node runs, and
\* to whatever the threads still wait for once it is shut down
Timer == TimerJumpTo(IF gdone THEN LatestWake ELSE MaxJump)

InitClose == InitBrowse

\* The steps of the threads the node has started
ThreadsRun ==
    \/ \E b \in Browsers : BrowserTop(b)
    \/ \E b \in Browsers : BrowserEnterWait(b)
    \/ \E b \in Browsers : BrowserTimeout(b)
    \/ \E b \in Browsers : BrowserCheck(b)
    \/ \E b \in Browsers : BrowserAct(b)
    \/ ReaperEnterWait
    \/ ReaperTimeout
    \/ ReaperCheck
    \/ ReaperSweep
    \/ EngineSelectReturns
    \/ CloseSockets

NextClose ==
    \/ \E b \in Browsers : AddServiceListener(b)
    \/ PeerAnnounces
    \/ Close
    \/ ThreadsRun
    \/ Timer

SpecClose == InitClose /\ [][NextClose]_vars

\* Every thread that can take a step takes one, and time moves on
FairClose == SpecClose /\ WF_vars(ThreadsRun) /\ WF_vars(Timer)

-----------------------------------------------------------------------------
(* Messages on their own: packet() called on an outgoing message drawn     *)
(* from a small set, and DNSIncoming called on the bytes                    *)

MaxAnswers == 1

WireQuestions ==
    {<<>>, <<DNSQuestion("_a._tcp.local.", TYPE_PTR)>>,
     <<DNSQuestion("Web._a._tcp.local.", TYPE_ANY)>>,
     <<DNSQuestion("_a._tcp.local.", TYPE_PTR),
       DNSQuestion("Web._a._tcp.local.", TYPE_ANY)>>}

\* The four records of a service as register_service announces them
WireRecords ==
    {DNSPointer("_a._tcp.local.", 4500, "Web._a._tcp.local.", 0),
     Unique(DNSService("Web._a._tcp.local.", 120, 0, 0, 1234, "host.local.", 0)),
     DNSText("Web._a._tcp.local.", 4500, "path=/", 0),
     Unique(DNSAddress("host.local.", 120, "127.0.0.1", 0))}

\* The sequences of at most n of these records
RecordSeqs(n) == UNION {[1..k -> WireRecords] : k \in 0..n}

WireMessages ==
    {[DNSOutgoing(f, m) EXCEPT
        !.id = 7, !.questions = q,
        !.answers = [i \in 1..Len(a) |-> [rec |-> a[i], now |-> 0]],
        !.authorities = b, !.additionals = c] :
     f \in {FLAGS_QR_QUERY, FLAGS_QR_RESPONSE + FLAGS_AA}, m \in BOOLEAN,
     q \in WireQuestions, a \in RecordSeqs(MaxAnswers), b \in RecordSeqs(1),
     c \in RecordSeqs(1)}

NoMsg == [id |-> 0, flags |-> 0, questions |-> <<>>, answers |-> <<>>,
          err |-> ""]

\* out.packet()
CallPacket ==
    /\ unit.op = "wire"
    /\ unit.step = "new"
    /\ unit' = [unit EXCEPT !.step = "packed",
                            !.data = PacketData(unit.out),
                            !.wrote = PacketWriter(unit.out).wrote]
    /\ UNCHANGED node

\* DNSIncoming(data)
CallDNSIncoming ==
    /\ unit.op = "wire"
    /\ unit.step = "packed"
    /\ unit' = [unit EXCEPT !.step = "parsed",
                            !.msg = ParseData(unit.data, clock)]
    /\ UNCHANGED node

InitWire ==
    /\ InitIdle
    /\ unit \in {[op |-> "wire", step |-> "new", out |-> o, data |-> <<>>,
                  wrote |-> <<>>, msg |-> NoMsg] : o \in WireMessages}

NextWire == CallPacket \/ CallDNSIncoming

SpecWire == InitWire /\ [][NextWire]_vars

-----------------------------------------------------------------------------
(* A browser over a long time: its queries, further and further apart,      *)
(* while the peer responds and the reaper sweeps                            *)

MaxBrowseTime == 52000

NextDelay ==
    \/ \E b \in Browsers : AddServiceListener(b)
    \/ \E b \in Browsers : BrowserTop(b)
    \/ \E b \in Browsers : BrowserEnterWait(b)
    \/ \E b \in Browsers : BrowserTimeout(b)
    \/ \E b \in Browsers : BrowserCheck(b)
    \/ \E b \in Browsers : BrowserAct(b)
    \/ PeerAnnounces
    \/ ReaperEnterWait
    \/ ReaperTimeout
    \/ ReaperCheck
    \/ ReaperSweep
    \/ TimerJumpTo(MaxBrowseTime)

SpecDelay == InitReap /\ [][NextDelay]_vars

-----------------------------------------------------------------------------
(* The reaper's sweep statement by statement, while the engine handles      *)
(* responses: Reaper.run takes no lock, so handle_response can run between  *)
(* `if record.is_expired(now)`, update_record and cache.remove              *)

\* A record object as it is now: handle_response resets the ttl and the
\* creation time of the cached object itself (entry.reset_ttl), so whoever
\* holds the object sees the reset.  No record leaves the cache during a
\* sweep except through the reaper, and handle_response caches no two equal
\* records, so the object is the cached record equal to the one held.
Current(c, record) ==
    LET list == c.b[Key(record)]
        same == {i \in 1..Len(list) : RecEq(list[i], record)}
    IN  IF same = {} THEN record
        ELSE list[CHOOSE i \in same : \A j \in same : i <= j]

\* The record of the reaper's for loop
ReaperRecord == Current(cache, ReaperList[rp.idx])

\* `for record in ...: if record.is_expired(now):`, or the end of the loop
ReaperJudge ==
    /\ rp.pc = "sweep"
    /\ rp' = IF rp.idx > Len(ReaperList)
             THEN [rp EXCEPT !.pc = "towait", !.it = <<>>, !.idx = 1,
                             !.live = FALSE, !.key = "", !.now = 0]
             ELSE IF IsExpired(ReaperRecord, rp.now)
             THEN [rp EXCEPT !.pc = "notify"]
             ELSE [rp EXCEPT !.idx = @ + 1]
    /\ UNCHANGED <<clock, gdone, cache, listeners, sent, br, calls, enq, nresp,
                   services, servicetypes, reg, rs, net, socks, browsers, eng,
                   cl, hist, unit>>

\* `self.zc.update_record(now, record)`; a listener that raises ends the
\* thread
ReaperNotify ==
    /\ rp.pc = "notify"
    /\ IF Raises(listeners)
       THEN LET st == ZcUpdateRecord(CalledFirst(listeners),
                        [cache |-> cache, br |-> br, rs |-> rs],
                        rp.now, ReaperRecord)
            IN  /\ br' = st.br
                /\ rs' = st.rs
                /\ enq' = Enqueued(br, st.br)
                /\ rp' = ReaperRaises(rp)
                /\ UNCHANGED reg
       ELSE LET st == ZcUpdateRecord(listeners,
                        [cache |-> cache, br |-> br, rs |-> rs],
                        rp.now, ReaperRecord)
                t == NotifyAll([br |-> st.br,
                                rp |-> [rp EXCEPT !.pc = "remove"],
                                reg |-> reg, rs |-> st.rs])
            IN  /\ SetThreads(t)
                /\ enq' = Enqueued(br, st.br)
    /\ UNCHANGED <<clock, gdone, cache, listeners, sent, calls, nresp,
                   services, servicetypes, net, socks, browsers, eng, cl,
                   hist, unit>>

\* `self.zc.cache.remove(record)`
ReaperRemove ==
    /\ rp.pc = "remove"
    /\ cache' = CacheRemove(cache, ReaperRecord)
    /\ rp' = [rp EXCEPT !.pc = "sweep", !.idx = @ + 1]
    /\ UNCHANGED <<clock, gdone, listeners, sent, br, calls, enq, nresp,
                   services, servicetypes, reg, rs, net, socks, browsers, eng,
                   cl, hist, unit>>

NextSweepRace ==
    \/ \E b \in Browsers : AddServiceListener(b)
    \/ \E b \in Browsers : BrowserTop(b)
    \/ \E b \in Browsers : BrowserEnterWait(b)
    \/ \E b \in Browsers : BrowserTimeout(b)
    \/ \E b \in Browsers : BrowserCheck(b)
    \/ \E b \in Browsers : BrowserAct(b)
    \/ PeerAnnounces
    \/ ReaperEnterWait
    \/ ReaperTimeout
    \/ ReaperCheck
    \/ ReaperJudge
    \/ ReaperNotify
    \/ ReaperRemove
    \/ TimerJumpTo(REAPER_PERIOD)

SpecSweepRace == InitReap /\ [][NextSweepRace]_vars

-----------------------------------------------------------------------------
(* DNSQuestion.answered_by called on its own, on questions and records of   *)
(* names that differ in case, of several types and of two classes           *)

QuestionNames == {TypeA, TypeU, TypeB}

\* The questions: DNSQuestion(name, type, class_)
Questions ==
    {[DNSQuestion(n, t) EXCEPT !.class = c] :
        n \in QuestionNames, t \in {TYPE_PTR, TYPE_A, TYPE_ANY},
        c \in {CLASS_IN, CLASS_CS}}

\* The records: a PTR record or an A record of a name and a class
AnswerRecords ==
    {[DNSPointer(n, DNS_TTL, "Web._a._tcp.local.", 0) EXCEPT !.class = c] :
        n \in QuestionNames, c \in {CLASS_IN, CLASS_CS}}
    \cup {[DNSAddress(n, DNS_TTL, Addr1, 0) EXCEPT !.class = c] :
             n \in QuestionNames, c \in {CLASS_IN, CLASS_CS}}

\* question.answered_by(rec)
CallAnsweredBy ==
    /\ unit.op = "answered_by"
    /\ unit.result = "none"
    /\ unit' = [unit EXCEPT !.result =
                   IF AnsweredBy(unit.question, unit.rec) THEN "True"
                   ELSE "False"]
    /\ UNCHANGED node

InitQuestion ==
    /\ InitIdle
    /\ unit \in {[op |-> "answered_by", question |-> q, rec |-> r,
                  result |-> "none"] : q \in Questions, r \in AnswerRecords}

NextQuestion == CallAnsweredBy

SpecQuestion == InitQuestion /\ [][NextQuestion]_vars

-----------------------------------------------------------------------------
(* Names on their own: write_name called on a new message for one name     *)
(* after another, and read_name called on the bytes                         *)

MaxNames == 2

\* The sequences of at most n names
NameSeqs(n) == UNION {[1..k -> WireNames] : k \in 1..n}

\* out.write_name(name) for the next name of the list; a call that raises
\* ends the run
CallWriteName ==
    /\ unit.op = "names"
    /\ unit.w.err = ""
    /\ unit.i <= Len(unit.names)
    /\ unit' = [unit EXCEPT !.w = WriteName(unit.w, unit.names[unit.i]),
                            !.i = @ + 1]
    /\ UNCHANGED node

\* read_name on the bytes written, from where the first name begins
CallReadName ==
    /\ unit.op = "names"
    /\ unit.w.err = ""
    /\ unit.i > Len(unit.names)
    /\ unit.read = NoRead
    /\ unit' = [unit EXCEPT !.read = ReadName(Header \o Join(unit.w.data, 1), 12)]
    /\ UNCHANGED node

InitNames ==
    /\ InitIdle
    /\ unit \in {[op |-> "names", names |-> n, i |-> 1, w |-> NewWriter,
                  read |-> NoRead] : n \in NameSeqs(MaxNames)}

NextNames == CallWriteName \/ CallReadName

SpecNames == InitNames /\ [][NextNames]_vars

-----------------------------------------------------------------------------
(* ServiceInfo properties and the text field.  A str is the sequence of its *)
(* code points, a bytes object the sequence of its bytes; a dict is the     *)
(* sequence of its (key, value) pairs in iteration order.                   *)

PyNone == [py |-> "None", v |-> <<>>]
PyStr(chars) == [py |-> "str", v |-> chars]
PyBytes(bytes) == [py |-> "bytes", v |-> bytes]
PyInt(n) == [py |-> "int", v |-> n]
PyBool(b) == [py |-> "bool", v |-> b]

\* str.encode('utf-8') for code points below 0x800
RECURSIVE EncodeUtf8(_)
EncodeUtf8(chars) ==
    IF chars = <<>> THEN <<>>
    ELSE (IF Head(chars) < 128 THEN <<Head(chars)>>
          ELSE <<192 + (Head(chars) \div 64), 128 + (Head(chars) % 64)>>)
         \o EncodeUtf8(Tail(chars))

EQUALS == 61
BytesTrue == <<116, 114, 117, 101>>
BytesFalse == <<102, 97, 108, 115, 101>>

\* bool(value) of an int or a bool
Truth(value) == IF value.py = "bool" THEN value.v ELSE value.v # 0

\* The suffix _set_properties writes for a value: a value that is neither
\* None, str nor int gets the empty suffix
Suffix(value) ==
    CASE value.py = "None" -> <<>>
      [] value.py = "str" -> EncodeUtf8(value.v)
      [] value.py \in {"int", "bool"} ->
            IF Truth(value) THEN BytesTrue ELSE BytesFalse
      [] OTHER -> <<>>

\* b'='.join((key, suffix)) for one pair of the dict
Item(pair) ==
    (IF pair[1].py = "str" THEN EncodeUtf8(pair[1].v) ELSE pair[1].v)
    \o <<EQUALS>> \o Suffix(pair[2])

\* ServiceInfo._set_properties on a dict: the text field
RECURSIVE SetProperties(_)
SetProperties(properties) ==
    IF properties = <<>> THEN <<>>
    ELSE <<Len(Item(Head(properties)))>> \o Item(Head(properties))
         \o SetProperties(Tail(properties))

\* The strings of a text field: a length byte and that many bytes, as many
\* times as the text lasts
RECURSIVE Strs(_, _)
Strs(text, index) ==
    IF index >= Len(text) THEN <<>>
    ELSE <<Slice(text, index + 1, index + 1 + text[index + 1])>>
         \o Strs(text, index + 1 + text[index + 1])

\* s.split(b'=', 1) and the reading of the value: [key, value]; a string
\* with no equals sign is a key with the value False
KeyValue(s) ==
    LET eq == ListIndex(s, EQUALS, 1)
        value == SubSeq(s, eq + 1, Len(s))
    IN  IF eq = 0 THEN [key |-> s, value |-> PyBool(FALSE)]
        ELSE [key |-> SubSeq(s, 1, eq - 1),
              value |-> IF value = BytesTrue THEN PyBool(TRUE)
                        ELSE IF value = BytesFalse \/ value = <<>>
                             THEN PyBool(FALSE)
                        ELSE PyBytes(value)]

\* The dict _set_text builds from the strings: a key is set once, an
\* empty key never
RECURSIVE ParseStrs(_, _)
ParseStrs(strs, result) ==
    IF strs = <<>> THEN result
    ELSE LET kv == KeyValue(Head(strs))
         IN  ParseStrs(Tail(strs),
                 IF kv.key # <<>> /\ kv.key \notin DOMAIN result
                 THEN [k \in DOMAIN result \cup {kv.key} |->
                          IF k = kv.key THEN kv.value ELSE result[k]]
                 ELSE result)

\* ServiceInfo._set_text: the properties read from a text field, a
\* function from the keys to the values
SetText(text) == ParseStrs(Strs(text, 0), <<>>)

\* The keys and the values the properties are drawn from
PropKeys == {PyStr(<<97>>), PyBytes(<<98>>), PyStr(<<233>>)}
PropValues ==
    {PyNone, PyStr(<<120>>), PyStr(<<233, 61>>), PyBytes(<<120>>),
     PyInt(0), PyInt(2), PyBool(TRUE)}

MaxProps == 2

\* The key as bytes
KeyBytes(key) == IF key.py = "str" THEN EncodeUtf8(key.v) ELSE key.v

\* The dicts of at most n pairs
Dicts(n) ==
    UNION {{d \in [1..k -> PropKeys \X PropValues] :
               \A i, j \in 1..k : i # j => d[i][1] # d[j][1]} : k \in 1..n}

\* ServiceInfo(type, name, properties=P): the text is built
CallSetProperties ==
    /\ unit.op = "props"
    /\ unit.step = "new"
    /\ unit' = [unit EXCEPT !.step = "built",
                            !.text = SetProperties(unit.properties)]
    /\ UNCHANGED node

\* info._set_text(text) of another ServiceInfo, as update_record does with
\* the text of a TXT record
CallSetText ==
    /\ unit.op = "props"
    /\ unit.step = "built"
    /\ unit' = [unit EXCEPT !.step = "parsed", !.parsed = SetText(unit.text)]
    /\ UNCHANGED node

InitProps ==
    /\ InitIdle
    /\ unit \in {[op |-> "props", step |-> "new", properties |-> d,
                  text |-> <<>>, parsed |-> <<>>] : d \in Dicts(MaxProps)}

NextProps == CallSetProperties \/ CallSetText

SpecProps == InitProps /\ [][NextProps]_vars

-----------------------------------------------------------------------------
(* Zeroconf.update_record step by step, while the application adds and      *)
(* removes listeners.  The for loop holds an iterator over the list         *)
(* self.listeners itself: a position in the list (unit.idx).  No lock is    *)
(* taken by update_record, add_listener or remove_listener around the list. *)
(* unit.calls counts the update_record calls each listener got in the       *)
(* dispatch, unit.held is the set of listeners that were in the list when   *)
(* the dispatch began and have not been removed since.                      *)

AppListeners == {"l1", "l2", "l3"}
MaxChanges == 3

\* The listeners of a list
ListSet(list) == {list[i] : i \in 1..Len(list)}

\* Zeroconf.update_record(now, rec) is entered: `for listener in
\* self.listeners` creates the iterator
DispatchBegin ==
    /\ unit.op = "dispatch"
    /\ unit.pc = "idle"
    /\ listeners # <<>>
    /\ unit' = [unit EXCEPT !.pc = "loop", !.idx = 1,
                            !.calls = [l \in AppListeners |-> 0],
                            !.held = ListSet(listeners)]
    /\ UNCHANGED node

\* One step of the iterator: the listener at the position is called and the
\* position moves on, or the position is past the end and the loop is over
DispatchStep ==
    /\ unit.op = "dispatch"
    /\ unit.pc = "loop"
    /\ unit' = IF unit.idx > Len(listeners)
               THEN [unit EXCEPT !.pc = "done"]
               ELSE [unit EXCEPT !.idx = @ + 1,
                                 !.calls[listeners[unit.idx]] = @ + 1]
    /\ UNCHANGED node

\* update_record returns after notify_all
DispatchEnd ==
    /\ unit.op = "dispatch"
    /\ unit.pc = "done"
    /\ unit' = [unit EXCEPT !.pc = "idle", !.idx = 0]
    /\ UNCHANGED node

\* Zeroconf.add_listener(listener, None) called by an application thread
AppAddListener(l) ==
    /\ unit.op = "dispatch"
    /\ unit.changes < MaxChanges
    /\ l \notin ListSet(listeners)
    /\ listeners' = Append(listeners, l)
    /\ unit' = [unit EXCEPT !.changes = @ + 1]
    /\ UNCHANGED <<clock, gdone, cache, sent, br, calls, enq, rp, nresp,
                   services, servicetypes, reg, rs, net, socks, browsers, eng,
                   cl, hist>>

\* Zeroconf.remove_listener(listener) called by an application thread
AppRemoveListener(l) ==
    /\ unit.op = "dispatch"
    /\ unit.changes < MaxChanges
    /\ l \in ListSet(listeners)
    /\ listeners' = ListRemove(listeners, l)
    /\ unit' = [unit EXCEPT !.changes = @ + 1, !.held = @ \ {l}]
    /\ UNCHANGED <<clock, gdone, cache, sent, br, calls, enq, rp, nresp,
                   services, servicetypes, reg, rs, net, socks, browsers, eng,
                   cl, hist>>

InitDispatch ==
    /\ InitIdle
    /\ unit = [op |-> "dispatch", pc |-> "idle", idx |-> 0, changes |-> 0,
               calls |-> [l \in AppListeners |-> 0], held |-> {}]

NextDispatch ==
    \/ DispatchBegin
    \/ DispatchStep
    \/ DispatchEnd
    \/ \E l \in AppListeners : AppAddListener(l)
    \/ \E l \in AppListeners : AppRemoveListener(l)

SpecDispatch == InitDispatch /\ [][NextDispatch]_vars

-----------------------------------------------------------------------------
(* get_service_info called by two application threads at once.  Each call   *)
(* creates its own ServiceInfo (unit.name[s] is its name) and runs request,  *)
(* which adds the object to self.listeners at its start and removes it in    *)
(* its `finally`; the loop in between leaves the list alone.                 *)

\* The ServiceInfo object of each of the two threads
Requesters == {"s1", "s2"}

\* The instance names asked for
RequestNames == {"Web._a._tcp.local.", "db._a._tcp.local."}

MaxRequests == 4

\* ServiceInfo.__eq__: `other.name == self.name`
InfoEq(names, a, b) == names[b] = names[a]

\* list.remove(x) on a list of ServiceInfo objects: the first item that
\* __eq__ finds equal to x is removed; ValueError when there is none, which
\* remove_listener catches
RemoveEqual(list, x, names) ==
    LET same == {i \in 1..Len(list) : InfoEq(names, list[i], x)}
        first == CHOOSE i \in same : \A j \in same : i <= j
    IN  IF same = {} THEN list
        ELSE [j \in 1..(Len(list) - 1) |->
                IF j < first THEN list[j] ELSE list[j + 1]]

\* get_service_info(type, name): ServiceInfo(type, name) and request up to
\* and with `zc.add_listener(self, ...)`
RequestBegins(s, name) ==
    /\ unit.op = "request"
    /\ unit.pc[s] # "request"
    /\ unit.requests < MaxRequests
    /\ listeners' = Append(listeners, s)
    /\ unit' = [unit EXCEPT !.pc[s] = "request", !.name[s] = name,
                            !.requests = @ + 1]
    /\ UNCHANGED <<clock, gdone, cache, sent, br, calls, enq, rp, nresp,
                   services, servicetypes, reg, rs, net, socks, browsers, eng,
                   cl, hist>>

\* The loop of request has ended: `finally: zc.remove_listener(self)`, and
\* the call returns
RequestEnds(s) ==
    /\ unit.op = "request"
    /\ unit.pc[s] = "request"
    /\ listeners' = RemoveEqual(listeners, s, unit.name)
    /\ unit' = [unit EXCEPT !.pc[s] = "returned"]
    /\ UNCHANGED <<clock, gdone, cache, sent, br, calls, enq, rp, nresp,
                   services, servicetypes, reg, rs, net, socks, browsers, eng,
                   cl, hist>>

InitRequest ==
    /\ InitIdle
    /\ unit = [op |-> "request", pc |-> [s \in Requesters |-> "idle"],
               name |-> [s \in Requesters |-> ""], requests |-> 0]

NextRequest ==
    \/ \E s \in Requesters : \E name \in RequestNames : RequestBegins(s, name)
    \/ \E s \in Requesters : RequestEnds(s)

SpecRequest == InitRequest /\ [][NextRequest]_vars

-----------------------------------------------------------------------------
(* Two nodes in one process.  _GLOBAL_DONE is a variable of the module      *)
(* (gdone), read by the threads of every node and written by                *)
(* Zeroconf.__init__ and close() of every node.  unit.up[n]: node n has     *)
(* been created; unit.closed[n]: close() has been called on it;             *)
(* unit.th[n][w]: where its thread w is; unit.resumed[n][w]: the thread     *)
(* went on with its loop after close() had been called on its node.         *)

Nodes == {"A", "B"}
Workers == {"engine", "reaper", "browser"}

\* Zeroconf.__init__: `_GLOBAL_DONE = False`, and the threads are started
\* (the browser by add_service_listener, soon after)
NewNode(n) ==
    /\ unit.op = "nodes"
    /\ ~unit.up[n]
    /\ gdone' = FALSE
    /\ unit' = [unit EXCEPT !.up[n] = TRUE,
                            !.th[n] = [w \in Workers |-> "running"]]
    /\ UNCHANGED <<clock, cache, listeners, sent, br, calls, enq, rp, nresp,
                   services, servicetypes, reg, rs, net, socks, browsers, eng,
                   cl, hist>>

\* close() of node n: `if not _GLOBAL_DONE: _GLOBAL_DONE = True`, the
\* notifications, the goodbyes and the sockets; nothing at all when the
\* flag is set already
CloseNode(n) ==
    /\ unit.op = "nodes"
    /\ unit.up[n]
    /\ ~unit.closed[n]
    /\ gdone' = TRUE
    /\ unit' = [unit EXCEPT !.closed[n] = TRUE]
    /\ UNCHANGED <<clock, cache, listeners, sent, br, calls, enq, rp, nresp,
                   services, servicetypes, reg, rs, net, socks, browsers, eng,
                   cl, hist>>

\* A thread of node n comes back from its wait or its select and tests the
\* flag: `while not _GLOBAL_DONE` (Engine.run), `if _GLOBAL_DONE: return`
\* (Reaper.run), `if _GLOBAL_DONE or self.done: return` (ServiceBrowser.run)
WorkerTestsFlag(n, w) ==
    /\ unit.op = "nodes"
    /\ unit.th[n][w] = "running"
    /\ unit' = IF gdone
               THEN [unit EXCEPT !.th[n][w] = "exit"]
               ELSE [unit EXCEPT !.resumed[n][w] = unit.closed[n]]
    /\ UNCHANGED node

InitNodes ==
    /\ InitIdle
    /\ unit = [op |-> "nodes", up |-> [n \in Nodes |-> FALSE],
               closed |-> [n \in Nodes |-> FALSE],
               th |-> [n \in Nodes |-> [w \in Workers |-> "none"]],
               resumed |-> [n \in Nodes |-> [w \in Workers |-> FALSE]]]

NextNodes ==
    \/ \E n \in Nodes : NewNode(n)
    \/ \E n \in Nodes : CloseNode(n)
    \/ \E n \in Nodes : \E w \in Workers : WorkerTestsFlag(n, w)

SpecNodes == InitNodes /\ [][NextNodes]_vars

-----------------------------------------------------------------------------
(* The node's condition lock.  Zeroconf.wait and Zeroconf.notify_all are    *)
(* the only places that take it (`with self.condition`); what a thread does *)
(* is a list of steps: "mutate" a shared structure, "notify" (notify_all)   *)
(* or "wait".  unit.holder is the thread that holds the lock, unit.th[t]    *)
(* where thread t is: the steps of the call it runs, the step it is at, and *)
(* how far in this step it is.                                              *)

LockThreads == {"engine", "reaper", "app"}

Mutate(structure) == [do |-> "mutate", on |-> structure]
NotifyStep == [do |-> "notify", on |-> ""]
WaitStep == [do |-> "wait", on |-> ""]

\* Listener.handle_read for a response of one answer: handle_response
\* changes the cache, update_record notifies
EngineSteps == <<Mutate("cache"), NotifyStep>>

\* One round of Reaper.run that finds one expired record: wait,
\* update_record, cache.remove
ReaperSteps == <<WaitStep, NotifyStep, Mutate("cache")>>

\* The calls of the application: add_listener, remove_listener,
\* add_service_listener (ServiceBrowser.__init__ calls add_listener),
\* register_service and unregister_service up to the first wait
AppCalls ==
    {<<Mutate("listeners"), NotifyStep>>,
     <<Mutate("listeners"), NotifyStep, Mutate("browsers")>>,
     <<Mutate("services"), Mutate("servicetypes"), WaitStep>>}

\* The steps thread t runs next when its call is over
NextCalls(t) ==
    IF t = "engine" THEN {EngineSteps}
    ELSE IF t = "reaper" THEN {ReaperSteps}
    ELSE AppCalls

\* The step thread t is at
StepOf(t) == unit.th[t].steps[unit.th[t].i]

\* Thread t goes on to its next step
Advance(th) == [th EXCEPT !.i = @ + 1, !.at = "before"]

\* The thread begins a call
BeginCall(t) ==
    /\ unit.op = "lock"
    /\ unit.th[t].i > Len(unit.th[t].steps)
    /\ \E steps \in NextCalls(t) :
          unit' = [unit EXCEPT !.th[t] = [steps |-> steps, i |-> 1,
                                          at |-> "before"]]
    /\ UNCHANGED node

\* The thread begins to change a structure: no lock is taken
EnterMutation(t) ==
    /\ unit.op = "lock"
    /\ unit.th[t].i <= Len(unit.th[t].steps)
    /\ StepOf(t).do = "mutate"
    /\ unit.th[t].at = "before"
    /\ unit' = [unit EXCEPT !.th[t].at = "inside"]
    /\ UNCHANGED node

\* The change is made
LeaveMutation(t) ==
    /\ unit.op = "lock"
    /\ unit.th[t].i <= Len(unit.th[t].steps)
    /\ StepOf(t).do = "mutate"
    /\ unit.th[t].at = "inside"
    /\ unit' = [unit EXCEPT !.th[t] = Advance(@)]
    /\ UNCHANGED node

\* `with self.condition:` of wait and of notify_all
AcquireCondition(t) ==
    /\ unit.op = "lock"
    /\ unit.th[t].i <= Len(unit.th[t].steps)
    /\ StepOf(t).do \in {"notify", "wait"}
    /\ unit.th[t].at = "before"
    /\ unit.holder = ""
    /\ unit' = [unit EXCEPT !.holder = t, !.th[t].at = "locked"]
    /\ UNCHANGED node

\* self.condition.wait(timeout): the lock is released while the thread waits
ConditionWait(t) ==
    /\ unit.op = "lock"
    /\ unit.th[t].i <= Len(unit.th[t].steps)
    /\ StepOf(t).do = "wait"
    /\ unit.th[t].at = "locked"
    /\ unit' = [unit EXCEPT !.holder = "", !.th[t].at = "waiting"]
    /\ UNCHANGED node

\* The wait ends, by a notification or by its timeout: the lock is taken
\* again before wait returns
ConditionWake(t) ==
    /\ unit.op = "lock"
    /\ unit.th[t].i <= Len(unit.th[t].steps)
    /\ StepOf(t).do = "wait"
    /\ unit.th[t].at = "waiting"
    /\ unit.holder = ""
    /\ unit' = [unit EXCEPT !.holder = t, !.th[t].at = "woken"]
    /\ UNCHANGED node

\* The end of the with block, after notify_all() or after wait() returned
ReleaseCondition(t) ==
    /\ unit.op = "lock"
    /\ unit.th[t].i <= Len(unit.th[t].steps)
    /\ \/ StepOf(t).do = "notify" /\ unit.th[t].at = "locked"
       \/ StepOf(t).do = "wait" /\ unit.th[t].at = "woken"
    /\ unit' = [unit EXCEPT !.holder = "", !.th[t] = Advance(@)]
    /\ UNCHANGED node

InitLock ==
    /\ InitIdle
    /\ unit = [op |-> "lock", holder |-> "",
               th |-> [t \in LockThreads |->
                         [steps |-> <<>>, i |-> 1, at |-> "before"]]]

NextLock ==
    \E t \in LockThreads :
        \/ BeginCall(t)
        \/ EnterMutation(t)
        \/ LeaveMutation(t)
        \/ AcquireCondition(t)
        \/ ConditionWait(t)
        \/ ConditionWake(t)
        \/ ReleaseCondition(t)

SpecLock == InitLock /\ [][NextLock]_vars

-----------------------------------------------------------------------------
(* DNSIncoming.read_name, one pass of its `while True` loop at a time, on    *)
(* any bytes.  unit.off, unit.next and unit.first are the loop's variables;  *)
(* the result string, which the loop only appends to and never reads, is    *)
(* left to ReadNameLoop.  unit.jumped: a pointer was followed;              *)
(* unit.forward: a label was read after a pointer was followed.             *)

MaxData == 4
ByteChoices == {0, 1, 2, 64, 192}

\* The byte sequences of at most n bytes
ByteSeqs(n) == UNION {[1..k -> ByteChoices] : k \in 1..n}

\* A pointer that may point anywhere
PointsAnywhere(target, first) == TRUE

\* `if off >= first: raise Exception("Bad domain name (circular)")`
PointsBack(target, first) == target < first

\* One pass of the loop of read_name
ReadNameStep ==
    /\ unit.op = "readname"
    /\ unit.pc = "loop"
    /\ unit' =
         IF unit.off >= Len(unit.data)
         THEN [unit EXCEPT !.pc = "raised", !.err = "IndexError"]
         ELSE LET length == unit.data[unit.off + 1]
                  off == unit.off + 1
              IN  IF length = 0
                  THEN [unit EXCEPT !.pc = "returned",
                                    !.off = IF unit.next >= 0 THEN unit.next
                                            ELSE off]
                  ELSE IF length \div 64 = 0
                  THEN [unit EXCEPT !.off = off + length,
                                    !.forward = unit.jumped]
                  ELSE IF length \div 64 = 3
                  THEN IF off >= Len(unit.data)
                       THEN [unit EXCEPT !.pc = "raised", !.err = "IndexError"]
                       ELSE LET target == (length % 64) * 256 + unit.data[off + 1]
                            IN  IF ~PointsBack(target, unit.first)
                                THEN [unit EXCEPT !.pc = "raised",
                                                  !.err = "Exception",
                                                  !.off = target,
                                                  !.next = IF @ < 0 THEN off + 1
                                                           ELSE @]
                                ELSE [unit EXCEPT !.off = target,
                                                  !.first = target,
                                                  !.next = IF @ < 0 THEN off + 1
                                                           ELSE @,
                                                  !.jumped = TRUE]
                  ELSE [unit EXCEPT !.pc = "raised", !.err = "Exception"]
    /\ UNCHANGED node

\* msg.read_name() is called with self.offset anywhere in the data
InitReadName ==
    /\ InitIdle
    /\ unit \in {[op |-> "readname", pc |-> "loop", data |-> d, start |-> o,
                  off |-> o, next |-> -1, first |-> o, err |-> "",
                  jumped |-> FALSE, forward |-> FALSE] :
                    d \in ByteSeqs(MaxData), o \in 0..(MaxData - 1)}
    /\ unit.start < Len(unit.data)

NextReadName == ReadNameStep

SpecReadName == InitReadName /\ [][NextReadName]_vars

\* The loop goes on as long as it can
FairReadName == SpecReadName /\ WF_vars(ReadNameStep)

-----------------------------------------------------------------------------
(* Records on their own: __eq__, is_expired and is_stale called on records  *)
(* and times drawn from small sets                                          *)

MaxTtl == 2

\* Records of every class the node caches, some alike in all but the name,
\* some in all but the payload, some in all but ttl and created
EqRecords ==
    {DNSPointer(n, t, a, c) :
        n \in {TypeA, TypeB}, t \in {1, MaxTtl},
        a \in {"Web._a._tcp.local.", "db._a._tcp.local."}, c \in {0, 500}}
    \cup {DNSAddress(n, 1, a, 0) :
            n \in {"host.local.", "db.local."}, a \in {Addr1, "192.0.2.7"}}
    \cup {DNSText(n, 1, x, 0) :
            n \in {"Web._a._tcp.local.", "db._a._tcp.local."},
            x \in {"", "path=/"}}
    \cup {DNSService(n, 1, 0, 0, p, "host.local.", 0) :
            n \in {"Web._a._tcp.local.", "db._a._tcp.local."},
            p \in {80, 1234}}

\* Records of every ttl up to MaxTtl, and the times around their half and
\* whole life
ExpiryRecords ==
    {DNSPointer(TypeA, t, "Web._a._tcp.local.", c) :
        t \in 0..MaxTtl, c \in {0, 500}}

ExpiryTimes ==
    {t \in {250 * k - d : k \in 0..(4 * MaxTtl + 3), d \in {0, 1}} : t >= 0}

EqCalls ==
    {[op |-> "eq", a |-> a, b |-> b, now |-> 0, done |-> FALSE, out |-> FALSE] :
        a \in EqRecords, b \in EqRecords}

ExpiryCalls ==
    {[op |-> o, a |-> a, b |-> NoRec, now |-> t, done |-> FALSE, out |-> FALSE] :
        o \in {"is_expired", "is_stale"}, a \in ExpiryRecords,
        t \in ExpiryTimes}

\* a == b
CallEq ==
    /\ unit.op = "eq"
    /\ ~unit.done
    /\ unit' = [unit EXCEPT !.done = TRUE, !.out = RecEq(unit.a, unit.b)]
    /\ UNCHANGED node

\* a.is_expired(now)
CallIsExpired ==
    /\ unit.op = "is_expired"
    /\ ~unit.done
    /\ unit' = [unit EXCEPT !.done = TRUE, !.out = IsExpired(unit.a, unit.now)]
    /\ UNCHANGED node

\* a.is_stale(now)
CallIsStale ==
    /\ unit.op = "is_stale"
    /\ ~unit.done
    /\ unit' = [unit EXCEPT !.done = TRUE, !.out = IsStale(unit.a, unit.now)]
    /\ UNCHANGED node

InitRecord == InitIdle /\ unit \in EqCalls \cup ExpiryCalls

NextRecord == CallEq \/ CallIsExpired \/ CallIsStale

SpecRecord == InitRecord /\ [][NextRecord]_vars

-----------------------------------------------------------------------------
(* The cache on its own: add, remove and get_by_details called one after   *)
(* the other on a cache that starts empty                                  *)

MaxOps == 3

\* Two pointers that are equal, a third of another alias, a fourth of
\* another name, and an address
CacheRecords ==
    {DNSPointer(TypeA, 1, "Web._a._tcp.local.", 0),
     DNSPointer(TypeA, 2, "Web._a._tcp.local.", 500),
     DNSPointer(TypeA, 1, "db._a._tcp.local.", 0),
     DNSPointer(TypeB, 1, "Web._a._tcp.local.", 0),
     DNSAddress("host.local.", 1, Addr1, 0)}

\* What get_by_details is asked for: (name, type)
CacheDetails == {<<TypeA, TYPE_PTR>>, <<"host.local.", TYPE_A>>,
                 <<"db.local.", TYPE_A>>}

NoCacheCall == [op |-> "cache", log |-> <<>>, out |-> NoRec]

nodeButCache == <<clock, gdone, listeners, sent, br, calls, enq, rp, nresp,
                  services, servicetypes, reg, rs, net, socks, browsers, eng,
                  cl, hist>>

\* cache.add(R)
CallCacheAdd(R) ==
    /\ unit.op = "cache"
    /\ Len(unit.log) < MaxOps
    /\ cache' = CacheAdd(cache, R)
    /\ unit' = [unit EXCEPT !.log = Append(@, [op |-> "add", a |-> R])]
    /\ UNCHANGED nodeButCache

\* cache.remove(R)
CallCacheRemove(R) ==
    /\ unit.op = "cache"
    /\ Len(unit.log) < MaxOps
    /\ cache' = CacheRemove(cache, R)
    /\ unit' = [unit EXCEPT !.log = Append(@, [op |-> "remove", a |-> R])]
    /\ UNCHANGED nodeButCache

\* cache.get_by_details(name, type, _CLASS_IN)
CallGetByDetails(name, type) ==
    /\ unit.op = "cache"
    /\ Len(unit.log) < MaxOps
    /\ unit' = [unit EXCEPT
                  !.log = Append(@, [op |-> "get_by_details",
                                     a |-> DNSEntry(name, type)]),
                  !.out = GetByDetails(cache, name, type)]
    /\ UNCHANGED node

InitCache == InitIdle /\ unit = NoCacheCall

NextCache ==
    \/ \E R \in CacheRecords : CallCacheAdd(R)
    \/ \E R \in CacheRecords : CallCacheRemove(R)
    \/ \E d \in CacheDetails : CallGetByDetails(d[1], d[2])

SpecCache == InitCache /\ [][NextCache]_vars

\* How often x occurs in a sequence
Count(seq, x) == Cardinality({i \in 1..Len(seq) : seq[i] = x})

Aliases == {p[2] : p \in PeerPtrs}

\* C3: while a browser for a type is active and a peer keeps answering with
\* the same PTR record (type -> N, TTL > 0), each answer arriving before
\* the held record expires and no goodbye for it arriving, the browser
\* enqueues and delivers exactly one add_service for N and no
\* remove_service for N.
C3_RefreshedServiceAddedOnce ==
    \A b \in Browsers : \A N \in Aliases :
        (br[b].pc # "none" /\ <<br[b].type, N>> \notin hist.lapsed) =>
            /\ Count(enq[b], RemoveEvent(br[b].type, N)) = 0
            /\ Count(calls[b], RemoveEvent(br[b].type, N)) = 0
            /\ Count(enq[b], AddEvent(br[b].type, N)) <= 1
            /\ Count(calls[b], AddEvent(br[b].type, N)) <= 1
            /\ (<<br[b].type, N>> \in PeerPtrs /\ hist.heard[<<br[b].type, N>>] > 0) =>
                  /\ Count(enq[b], AddEvent(br[b].type, N)) = 1
                  /\ br[b].list = <<>> =>
                        Count(calls[b], AddEvent(br[b].type, N)) = 1

\* C3's case: the record was announced twice to the active browser, never
\* lapsed, and the one add_service has been delivered
C3_Witness ==
    \E b \in Browsers :
        /\ hist.heard[<<TypeA, "Web._a._tcp.local.">>] = 2
        /\ <<TypeA, "Web._a._tcp.local.">> \notin hist.lapsed
        /\ clock >= 1000
        /\ calls[b] = <<AddEvent(TypeA, "Web._a._tcp.local.")>>
        /\ br[b].list = <<>>

\* The PTR records name -> alias in the cache
CachedPtrs(c, name, alias) ==
    {i \in 1..Len(Entries(c)) : /\ Entries(c)[i].type = TYPE_PTR
                                /\ Entries(c)[i].name = name
                                /\ Entries(c)[i].alias = alias}

\* C4: when a goodbye (TTL 0) PTR record type -> N is handled while the
\* browser of that type knows N, the record is removed from the cache, the
\* browser forgets N and one remove_service for N is enqueued.
C4_GoodbyeRemoves ==
    [][\A b \in Browsers : \A N \in Aliases :
         ( /\ nresp' = nresp - 1
           /\ \E i \in 1..Len(hist'.last) :
                 hist'.last[i] = PeerPtr(br[b].type, N, 0)
           /\ br[b].pc # "none"
           /\ br[b].services[Lower(N)] # NoRec )
         => /\ CachedPtrs(cache', br[b].type, N) = {}
            /\ br'[b].services[Lower(N)] = NoRec
            /\ enq'[b] = Append(enq[b], RemoveEvent(br[b].type, N))]_vars

\* C5: the callbacks of a browser are invoked in the order in which they
\* were enqueued, none skipped and none invoked twice: what was enqueued is
\* what was invoked followed by what is still pending.
C5_CallbacksInOrder ==
    \A b \in Browsers : enq[b] = calls[b] \o br[b].list

\* C5's case: several different callbacks were enqueued and invoked
C5_Witness ==
    \E b \in Browsers :
        /\ Len(calls[b]) >= 2
        /\ calls[b][1] # calls[b][2]
        /\ Len(br[b].list) >= 1

\* The instance names of the services of type T in the registry
Registered(T) ==
    {services[k].name :
        k \in {x \in ServiceKeys : services[x] # NoInfo /\ services[x].type = T}}

\* The aliases of the PTR answers T -> alias of a datagram
PtrAliases(dg, T) ==
    {dg.pkt.answers[i].alias :
        i \in {j \in 1..Len(dg.pkt.answers) :
                  /\ dg.pkt.answers[j].type = TYPE_PTR
                  /\ dg.pkt.answers[j].name = T}}

\* C2: whatever register_service and unregister_service calls came before,
\* handling a query from port 5353 with one PTR question on a type T and no
\* known answers sends one response, to the multicast group, whose PTR
\* answers T -> name are exactly the names of the services of type T in the
\* registry; when there is no such service, nothing is sent.
C2_PtrAnswersAreRegistry ==
    [][\A msg \in PeerQueries :
         ReceiveQuery(msg) =>
            LET T == msg.questions[1].name
            IN  IF Registered(T) = {}
                THEN sent' = sent
                ELSE /\ Len(sent') = Len(sent) + 1
                     /\ SubSeq(sent', 1, Len(sent)) = sent
                     /\ LET dg == sent'[Len(sent')]
                        IN  /\ dg.addr = MDNS_ADDR
                            /\ dg.port = MDNS_PORT
                            /\ dg.pkt.flags = FLAGS_QR_RESPONSE + FLAGS_AA
                            /\ Len(dg.pkt.answers) = Cardinality(Registered(T))
                            /\ PtrAliases(dg, T) = Registered(T)]_vars

\* C2's case: with two services registered whose types differ, the last
\* datagram sent is the response to a PTR query and names one of them
C2_Witness ==
    /\ services[Lower(SWeb.name)] = SWeb
    /\ services[Lower(SCam.name)] = SCam
    /\ Len(sent) > 0
    /\ LET dg == sent[Len(sent)]
       IN  /\ dg.pkt.flags = FLAGS_QR_RESPONSE + FLAGS_AA
           /\ Len(dg.pkt.answers) = 1
           /\ PtrAliases(dg, TypeA) = {SWeb.name}

\* The cache holds a PTR record for the type of info whose alias is the
\* name of info and that is not expired at time now
RivalCached(info, now) ==
    \E i \in 1..Len(Entries(cache)) :
        /\ Entries(cache)[i].type = TYPE_PTR
        /\ Entries(cache)[i].name = info.type
        /\ Entries(cache)[i].alias = info.name
        /\ ~IsExpired(Entries(cache)[i], now)

\* The datagrams sent since the call in progress began that are responses
AnnouncedSince(log, n) ==
    {i \in (n + 1)..Len(log) : log[i].pkt.flags = FLAGS_QR_RESPONSE + FLAGS_AA}

\* C8: when a probe round of register_service(S) scans the cache while it
\* holds a PTR record for S.type with alias S.name that is not expired, the
\* call renames S and starts the check again, or raises
\* NonUniqueNameException; when it raises, the registry and the reference
\* counts are as they were before the call and no announcement was sent.
C8_CollisionNotRegistered ==
    [][( /\ reg.pc = "check"
         /\ reg.i < 3
         /\ reg' # reg
         /\ RivalCached(reg.info, reg.now) )
       => \/ /\ reg'.pc = "check"
             /\ reg'.i = 0
             /\ reg'.info = Renamed(reg.info)
             /\ sent' = sent
          \/ /\ reg'.pc = "idle"
             /\ reg'.out = "NonUniqueNameException"
             /\ services' = reg.before.services
             /\ servicetypes' = reg.before.servicetypes
             /\ AnnouncedSince(sent', reg.before.nsent) = {}]_vars

\* server, address and text of a ServiceInfo are all set
Obtained(info) == info.server # None /\ info.address # None /\ info.text # None

\* The call of get_service_info by r has returned or raised
Returned(r) == rs[r].pc = "idle" /\ rs[r].out # ""

\* C1: on a node that hears its own multicast datagrams and loses none,
\* get_service_info(S.type, S.name) with timeout 3000, called after
\* register_service(S) has returned for a service S with an address,
\* returns a ServiceInfo with the address and the port of S.
C1_RegisteredServiceResolves ==
    \A r \in Resolvers :
        ( /\ Returned(r)
          /\ rs[r].timeout = 3000
          /\ socks.loopback /\ ~socks.short
          /\ hist.ready[r] # NoInfo
          /\ hist.ready[r].address \notin {None, ""} )
        => /\ rs[r].out = "info"
           /\ rs[r].info.address = hist.ready[r].address
           /\ rs[r].info.port = hist.ready[r].port

\* C1's case: the service registered with a host name of its own was looked
\* up after its registration and found by a query
C1_Witness ==
    \E r \in Resolvers :
        /\ Returned(r)
        /\ rs[r].timeout = 3000
        /\ hist.ready[r] = SWeb
        /\ rs[r].out = "info"
        /\ rs[r].info.server = SWeb.server
        /\ \E i \in 1..Len(sent) :
              /\ sent[i].pkt.flags = FLAGS_QR_QUERY
              /\ Len(sent[i].pkt.questions) = 3

C7_NullOnlyAfterTimeout ==
    /\ [](\A r \in Resolvers :
            (Returned(r) /\ rs[r].out = "null") =>
                clock >= hist.began[r] + rs[r].timeout)
    /\ \A r \in Resolvers : (rs[r].pc # "idle") ~> (rs[r].pc = "idle")

\* C7's case: a call whose wait was ended by a notify_all has returned null
C7_Witness ==
    \E r \in Resolvers :
        /\ Returned(r)
        /\ rs[r].out = "null"
        /\ hist.woken[r]
        /\ rs[r].info.address # None

\* The fields the equality of two records is said to compare
SameFields(a, b) ==
    /\ a.name = b.name
    /\ a.type = b.type
    /\ a.class = b.class
    /\ a.alias = b.alias
    /\ a.server = b.server
    /\ a.port = b.port
    /\ a.priority = b.priority
    /\ a.weight = b.weight
    /\ a.text = b.text
    /\ a.address = b.address

\* C16: two records compare equal if and only if they have the same name,
\* type, class and payload, whatever their ttl and creation time.
C16_EqualIffSameFields ==
    (unit.op = "eq" /\ unit.done) =>
        (unit.out <=> SameFields(unit.a, unit.b))

\* C18: a record is expired at every time from created + ttl * 1000 on, and
\* is not stale at any time before created + ttl * 500.
C18_ExpiredAndStale ==
    /\ (unit.op = "is_expired" /\ unit.done
            /\ unit.now >= unit.a.created + unit.a.ttl * 1000) => unit.out
    /\ (unit.op = "is_stale" /\ unit.done
            /\ unit.now < unit.a.created + unit.a.ttl * 500) => ~unit.out

\* C18's case: a record of ttl 0 asked at the time of its creation
C18_Witness ==
    /\ unit.op = "is_expired"
    /\ unit.done
    /\ unit.a.ttl = 0
    /\ unit.now = unit.a.created
    /\ unit.out

\* The calls made on the cache so far end with these operations
LogEndsWith(ops) ==
    /\ unit.op = "cache"
    /\ Len(unit.log) >= Len(ops)
    /\ \A i \in 1..Len(ops) :
          unit.log[Len(unit.log) - Len(ops) + i].op = ops[i]

\* The i-th last record the cache was called with
LogArg(i) == unit.log[Len(unit.log) + 1 - i].a

\* How many entries of the bucket of R's key are equal to R
EqualInBucket(c, R) ==
    Cardinality({i \in 1..Len(EntriesWithName(c, Key(R))) :
                    RecEq(EntriesWithName(c, Key(R))[i], R)})

\* C13: add(R) followed by add(R') with R == R' leaves exactly one entry
\* equal to R in the bucket of R's key, and after a following remove(R) that
\* bucket holds no entry equal to R.
C13_AddIsIdempotent ==
    /\ (LogEndsWith(<<"add", "add">>) /\ RecEq(LogArg(2), LogArg(1))
            /\ Key(LogArg(2)) = Key(LogArg(1)))
        => EqualInBucket(cache, LogArg(2)) = 1
    /\ (LogEndsWith(<<"add", "add", "remove">>) /\ RecEq(LogArg(3), LogArg(2))
            /\ Key(LogArg(3)) = Key(LogArg(2)) /\ LogArg(1) = LogArg(3))
        => EqualInBucket(cache, LogArg(3)) = 0

\* The cached records of a name, a type and class IN
Detailed(c, name, type) ==
    {i \in 1..Len(Entries(c)) :
        /\ Entries(c)[i].name = name
        /\ Entries(c)[i].type = type
        /\ Entries(c)[i].class = CLASS_IN}

\* C17: get_by_details(name, type, class) returns a cached record of that
\* name, type and class whenever the cache holds one, and None only when it
\* holds none.
C17_GetByDetailsFinds ==
    LogEndsWith(<<"get_by_details">>) =>
        IF Detailed(cache, LogArg(1).name, LogArg(1).type) = {}
        THEN unit.out = NoRec
        ELSE /\ unit.out.name = LogArg(1).name
             /\ unit.out.type = LogArg(1).type
             /\ unit.out.class = CLASS_IN
             /\ InEntries(cache, unit.out)

\* The cached records that have the name, type, class and payload of R
CachedLike(c, R) ==
    {i \in 1..Len(Entries(c)) : SameFields(Entries(c)[i], R)}

\* C14: the cache never holds two records of the same name, type, class
\* and payload, and a response record that is not expired and arrives while
\* such a record is cached leaves that one record there, with the ttl and
\* the creation time of the arrival.
C14_NoEqualRecordsCoexist ==
    /\ [](LET held == Entries(cache)
          IN  \A i, j \in 1..Len(held) :
                 i < j => ~SameFields(held[i], held[j]))
    /\ [][\A k \in 1..Len(hist'.last) :
            ( /\ nresp' = nresp - 1
              /\ ~IsExpired(hist'.last[k], clock)
              /\ CachedLike(cache, hist'.last[k]) # {} )
            => /\ Cardinality(CachedLike(cache', hist'.last[k])) = 1
               /\ \A i \in CachedLike(cache', hist'.last[k]) :
                     /\ Entries(cache')[i].ttl = hist'.last[k].ttl
                     /\ Entries(cache')[i].created = hist'.last[k].created]_vars

\* C14's case: a record heard a second time, half a second after it was
\* cached and with no goodbye in between, is cached once, as of its second
\* arrival
C14_Witness ==
    \E k \in 1..Len(hist.last) :
        /\ hist.heard[<<hist.last[k].name, hist.last[k].alias>>] = 2
        /\ <<hist.last[k].name, hist.last[k].alias>> \notin hist.lapsed
        /\ hist.last[k].created = 500
        /\ Cardinality(CachedLike(cache, hist.last[k])) = 1
        /\ \A i \in CachedLike(cache, hist.last[k]) :
              Entries(cache)[i].created = 500

\* C15: once handle_response has processed an answer R that is not expired,
\* the bucket of R's lower-case name holds a record of R's name, type, class
\* and payload, with R's ttl and creation time.
C15_AnswerIsCached ==
    [][\A k \in 1..Len(hist'.last) :
         ( /\ nresp' = nresp - 1
           /\ ~IsExpired(hist'.last[k], clock) )
         => \E i \in 1..Len(EntriesWithName(cache', Key(hist'.last[k]))) :
              /\ SameFields(EntriesWithName(cache', Key(hist'.last[k]))[i],
                            hist'.last[k])
              /\ EntriesWithName(cache', Key(hist'.last[k]))[i].ttl
                    = hist'.last[k].ttl
              /\ EntriesWithName(cache', Key(hist'.last[k]))[i].created
                    = hist'.last[k].created]_vars

\* The message read from the bytes is the message the node's threads are
\* modelled to receive
WireModelsAgree ==
    (unit.op = "wire" /\ unit.step = "parsed") =>
        /\ unit.msg.err = ""
        /\ [id |-> unit.msg.id, flags |-> unit.msg.flags,
            questions |-> unit.msg.questions, answers |-> unit.msg.answers]
             = DNSIncoming(Packet(unit.out), clock)

\* C19: parsing the packet of a message with q questions and a answers
\* yields q questions and a answers, the answers equal to the originals in
\* order, whatever the authority and additional sections hold.
C19_RoundTrip ==
    (unit.op = "wire" /\ unit.step = "parsed") =>
        /\ Len(unit.msg.questions) = Len(unit.out.questions)
        /\ Len(unit.msg.answers) = Len(unit.out.answers)
        /\ \A i \in 1..Len(unit.out.answers) :
              RecEq(unit.msg.answers[i], unit.out.answers[i].rec)

RECURSIVE FullName(_, _)
\* A name written out: each label behind its length, then a zero
FullName(labels, i) ==
    IF i > Len(labels) THEN <<0>>
    ELSE <<Len(labels[i])>> \o labels[i] \o FullName(labels, i + 1)

\* The first time a name was written into the message
FirstWrite(wrote, j) ==
    CHOOSE i \in 1..j :
        /\ wrote[i].name = wrote[j].name
        /\ \A h \in 1..(i - 1) : wrote[h].name # wrote[j].name

\* The bytes of a record that are not part of a name
PayloadBytes(r) ==
    10 + (CASE r.py = "DNSAddress" -> 4
            [] r.py = "DNSText" -> Len(TextBytes(r.text))
            [] r.py = "DNSService" -> 6
            [] OTHER -> 0)

RECURSIVE SumPayload(_, _)
SumPayload(records, i) ==
    IF i > Len(records) THEN 0
    ELSE PayloadBytes(records[i]) + SumPayload(records, i + 1)

RECURSIVE SumNames(_, _)
\* The bytes of the names when every name after its first is two bytes
SumNames(wrote, j) ==
    IF j > Len(wrote) THEN 0
    ELSE (IF FirstWrite(wrote, j) = j
          THEN Len(FullName(NameBytes(wrote[j].name), 1)) ELSE 2)
         + SumNames(wrote, j + 1)

\* C20: of two identical names written into one message the second is
\* exactly the two bytes 0xC000 | O, with O the offset in the final packet
\* of the first length byte of the first, also when the first lies in the
\* payload of a record.
C20_SecondNameIsPointer ==
    (unit.op = "wire" /\ unit.step # "new") =>
        /\ \A j \in 1..Len(unit.wrote) :
              LET i == FirstWrite(unit.wrote, j)
                  O == unit.wrote[i].at
                  at == unit.wrote[j].at
              IN  IF i = j
                  THEN Slice(unit.data, at,
                             at + Len(FullName(NameBytes(unit.wrote[j].name), 1)))
                         = FullName(NameBytes(unit.wrote[j].name), 1)
                  ELSE Slice(unit.data, at, at + 2)
                         = <<192 + O \div 256, O % 256>>
        /\ Len(unit.data) =
              12 + SumNames(unit.wrote, 1) + 4 * Len(unit.out.questions)
              + SumPayload([k \in 1..Len(unit.out.answers) |->
                              unit.out.answers[k].rec], 1)
              + SumPayload(unit.out.authorities, 1)
              + SumPayload(unit.out.additionals, 1)

\* C20's case: the name of an authority record was first written as the
\* alias in the payload of the one answer, and nowhere before
C20_Witness ==
    /\ unit.op = "wire"
    /\ unit.step = "packed"
    /\ unit.out.questions = <<DNSQuestion("_a._tcp.local.", TYPE_PTR)>>
    /\ Len(unit.out.answers) = 1
    /\ unit.out.answers[1].rec.py = "DNSPointer"
    /\ Len(unit.out.authorities) = 1
    /\ unit.out.authorities[1].name = unit.out.answers[1].rec.alias
    /\ unit.wrote[4].pointer
    /\ unit.wrote[4].name = unit.wrote[3].name

\* What raises while the engine handles a datagram
EngineFaults == {"DNSIncoming", "handle_query", "update_record"}

\* C11: an exception raised while the engine handles a datagram (by the
\* parser, by handle_query, by a listener's update_record in
\* handle_response) does not end the engine's loop: until shutdown the
\* engine is in its select, and it leaves the loop only once the shutdown
\* flag is set.
C11_EngineSurvivesExceptions ==
    /\ eng.pc \in {"select", "exit"}
    /\ eng.pc = "exit" => gdone
    /\ ~gdone => eng.pc = "select"

\* C11's case: the engine has caught an exception of each kind, has
\* dispatched a datagram after each, and is in its select
C11_Witness ==
    /\ hist.caught = EngineFaults
    /\ \A c \in EngineFaults : \E k \in {"query", "response"} : <<c, k>> \in hist.after
    /\ ~gdone
    /\ eng.pc = "select"

\* C12: an exception raised by a listener's add_service or remove_service,
\* by a send of a browser, or by a listener's update_record during a sweep
\* of the reaper stops neither the browser thread nor the reaper thread.
C12_ThreadsSurviveExceptions ==
    /\ \A b \in Browsers : br[b].pc # "dead"
    /\ rp.pc # "dead"

\* C9: a call of close() on a node that close() has already been called on
\* sends nothing, does nothing to the sockets, raises nothing and leaves
\* the state of the node as it was.
C9_CloseIsIdempotent ==
    [][(hist'.closes = hist.closes + 1 /\ gdone)
          => /\ cl'.pc = "idle"
             /\ cl'.out = ""
             /\ UNCHANGED <<clock, gdone, cache, listeners, sent, br, calls,
                            enq, rp, nresp, services, servicetypes, reg, rs,
                            net, socks, browsers, eng>>]_vars

\* C9's case: the first close() of a node with a registered service has
\* sent its goodbyes and closed the sockets, and a second call has returned
C9_Witness ==
    /\ hist.closes = 2
    /\ cl.pc = "idle"
    /\ ~socks.open
    /\ \E i \in 1..Len(sent) :
          /\ Len(sent[i].pkt.answers) > 0
          /\ \A k \in 1..Len(sent[i].pkt.answers) : sent[i].pkt.answers[k].ttl = 0

\* The engine, the reaper and every browser that was started have ended
AllEnded ==
    /\ eng.pc = "exit"
    /\ rp.pc \in {"exit", "dead"}
    /\ \A b \in Browsers : br[b].pc \in {"none", "exit", "dead"}

\* C10: once close() has been called, the engine thread, the reaper thread
\* and every browser thread eventually leave their loops, also when the
\* notification of the shutdown came while a thread was not waiting on the
\* condition.
C10_ThreadsExitAfterClose == gdone ~> AllEnded

\* C10's case: the notify_all of close() came while the reaper and a
\* browser were not waiting, and all the threads have ended
C10_Witness ==
    /\ "reaper" \in hist.unheard
    /\ \E b \in Browsers : b \in hist.unheard
    /\ AllEnded
    /\ \A b \in Browsers : br[b].pc = "exit"
    /\ rp.pc = "exit"

\* The labels of the names written so far, the one that raised included
LabelsWritten ==
    UNION {{WireLabels(unit.names[k])[j] : j \in 1..Len(WireLabels(unit.names[k]))} :
             k \in 1..(unit.i - 1)}

\* C21: the name writer raises NamePartTooLongException for every name
\* with a label of more than 63 bytes of UTF-8, and accepts every name
\* whose labels have at most 63 bytes.
C21_LabelOver63Fails ==
    unit.op = "names" =>
        ( unit.w.err = "NamePartTooLongException"
            <=> \E l \in LabelsWritten : Len(Utf8(l)) > 63 )

\* The normalization of a value: a string is its bytes, an int or a bool
\* is "true" or "false", None is the empty bytes
Normal(value) ==
    CASE value.py = "None" -> <<>>
      [] value.py = "str" -> EncodeUtf8(value.v)
      [] value.py \in {"int", "bool"} ->
            IF Truth(value) THEN BytesTrue ELSE BytesFalse
      [] OTHER -> value.v

\* C22: the properties parsed from the text built from a properties map P
\* have every key of P, and every bytes or string value of P is recovered
\* unchanged, a string as its bytes.
C22_PropertiesRoundTrip ==
    (unit.op = "props" /\ unit.step = "parsed") =>
        \A i \in 1..Len(unit.properties) :
            LET key == KeyBytes(unit.properties[i][1])
                value == unit.properties[i][2]
            IN  /\ key \in DOMAIN unit.parsed
                /\ value.py \in {"str", "bytes"} =>
                      Normal(unit.parsed[key]) = Normal(value)

\* The datagrams a step appends to the log of what the node sent
NewlySent == SubSeq(sent', Len(sent) + 1, Len(sent'))

\* The service types a response enumerates
TypesIn(dg) == {dg.pkt.answers[i].alias : i \in 1..Len(dg.pkt.answers)}

\* A response that enumerates the service types of a set, one PTR each
Enumerates(dg, types) ==
    /\ Len(dg.pkt.answers) = Cardinality(types)
    /\ TypesIn(dg) = types
    /\ \A i \in 1..Len(dg.pkt.answers) :
          /\ dg.pkt.answers[i].type = TYPE_PTR
          /\ dg.pkt.answers[i].name = ServicesMeta

\* Two responses to a query: the first to where it came from, the second
\* to the multicast group, both enumerating the service types of a set
TwoResponses(msg, types) ==
    /\ Len(NewlySent) = 2
    /\ NewlySent[1].addr = msg.addr /\ NewlySent[1].port = msg.port
    /\ NewlySent[2].addr = MDNS_ADDR /\ NewlySent[2].port = MDNS_PORT
    /\ Enumerates(NewlySent[1], types)
    /\ Enumerates(NewlySent[2], types)
    /\ NewlySent[1].pkt.answers = NewlySent[2].pkt.answers

\* The service types that have a registered service
RegisteredTypes == {T \in ServiceTypes : servicetypes[T] > 0}

C24_RemovedBrowserIsUnlisted ==
    \A b \in Browsers :
        br[b].done => /\ ListIndex(listeners, b, 1) = 0
                      /\ ListIndex(browsers, b, 1) = 0

\* C25: when the reaper's loop over the cache has ended, with no other
\* change to the cache since the loop began, the cache holds no record
\* that is expired at the time the sweep began.
C25_SweepLeavesNoExpired ==
    (rp.pc = "sweep" /\ rp.idx > Len(ReaperList)) =>
        \A i \in 1..Len(Entries(cache)) :
            ~IsExpired(Entries(cache)[i], rp.now)

\* C26: when update_record has gone through the listeners for an answer,
\* every listener that was registered from the beginning of the dispatch
\* to its end has been called exactly once, whatever other listeners were
\* added or removed by another thread meanwhile.
C26_EveryListenerCalledOnce ==
    (unit.op = "dispatch" /\ unit.pc = "done") =>
        \A l \in unit.held : unit.calls[l] = 1

\* The structure thread t is changing, "" when it is changing none
Mutating(t) ==
    IF unit.th[t].i <= Len(unit.th[t].steps) /\ unit.th[t].at = "inside"
    THEN StepOf(t).on ELSE ""

\* C27: a thread that is changing the cache, the listeners, the browsers,
\* the services or the service types holds the node's condition lock, and
\* no two threads are changing the same structure at the same time.
C27_MutationsHoldTheLock ==
    unit.op = "lock" =>
        /\ \A t \in LockThreads : Mutating(t) # "" => unit.holder = t
        /\ \A t, u \in LockThreads :
              (t # u /\ Mutating(t) # "") => Mutating(t) # Mutating(u)

\* The records the announcements of a service carry, as they are on the wire
AnnouncedRecords(S) == Packet(Announcement(S, DNS_TTL)).answers

\* A datagram is a goodbye of service S: a response whose first answer is
\* the PTR record of S with ttl 0
IsGoodbyeOf(dg, S) ==
    /\ ~IsQuery(dg.pkt)
    /\ Len(dg.pkt.answers) > 0
    /\ dg.pkt.answers[1].type = TYPE_PTR
    /\ dg.pkt.answers[1].ttl = 0
    /\ dg.pkt.answers[1].name = S.type
    /\ dg.pkt.answers[1].alias = S.name

\* C28: every goodbye message of unregister_service(S) holds, for every
\* record of S's announcements (PTR, SRV, TXT, A), a record equal to it
\* with ttl 0, also when the server of S is not the instance name.
C28_GoodbyeMatchesAnnouncement ==
    \A k \in 1..Len(sent) : \A S \in Infos :
        IsGoodbyeOf(sent[k], S) =>
            \A i \in 1..Len(AnnouncedRecords(S)) :
                \E j \in 1..Len(sent[k].pkt.answers) :
                    /\ RecEq(sent[k].pkt.answers[j], AnnouncedRecords(S)[i])
                    /\ sent[k].pkt.answers[j].ttl = 0

\* A datagram is a probe of check_service for a service
IsProbeOf(dg, info) ==
    /\ IsQuery(dg.pkt)
    /\ Len(dg.pkt.authorities) > 0
    /\ dg.pkt.authorities[1].alias = info.name

\* A datagram is an announcement of register_service for a service
IsAnnouncementOf(dg, info) ==
    /\ ~IsQuery(dg.pkt)
    /\ Len(dg.pkt.answers) >= 3
    /\ dg.pkt.answers[1].type = TYPE_PTR
    /\ dg.pkt.answers[1].alias = info.name
    /\ dg.pkt.answers[1].ttl > 0

\* The datagrams sent since the call of the registering thread began, the
\* one of the step included
SentInCall == SubSeq(sent', reg.before.nsent + 1, Len(sent'))

ProbesInCall == {k \in 1..Len(SentInCall) : IsProbeOf(SentInCall[k], reg.info)}
AnnouncementsInCall ==
    {k \in 1..Len(SentInCall) : IsAnnouncementOf(SentInCall[k], reg.info)}
GoodbyesInCall ==
    {k \in 1..Len(SentInCall) : IsGoodbyeOf(SentInCall[k], reg.info)}

\* C29: when register_service(S) returns and no name collision made it
\* rename S, it has sent exactly three probes and exactly three
\* announcements, every probe before every announcement; when
\* unregister_service returns it has sent exactly three goodbyes; whatever
\* notifications ended the waits of the caller early.
C29_ThreeProbesThreeAnnouncements ==
    [][(reg.pc \in {"announce", "goodbye"} /\ reg'.pc = "idle" /\ reg'.out = "ok") =>
          IF reg.op = "register"
          THEN reg.info \in Infos =>
                  /\ Cardinality(ProbesInCall) = 3
                  /\ Cardinality(AnnouncementsInCall) = 3
                  /\ \A p \in ProbesInCall : \A a \in AnnouncementsInCall : p < a
          ELSE Cardinality(GoodbyesInCall) = 3]_vars

\* register_service has sent its three probes and two announcements, and
\* a notification has just ended its wait for the third announcement early
C29_Witness ==
    /\ reg.pc = "woken"
    /\ reg.op = "register"
    /\ reg.ret = "announce"
    /\ reg.i = 2
    /\ clock < reg.next_time
    /\ Cardinality({k \in (reg.before.nsent + 1)..Len(sent) :
                       IsProbeOf(sent[k], reg.info)}) = 3

\* The delays a browser goes through
BrowserDelays == {500, 1000, 2000, 4000, 8000, 16000, 20000}

\* The step sends a query of browser b
SendsQuery(b) ==
    /\ br[b].pc = "act"
    /\ br'[b].pc = "top"
    /\ Len(sent') = Len(sent) + 1

\* C30: the delay of a browser is one of 500, 1000, 2000, 4000, 8000,
\* 16000, 20000 ms and never decreases; a query sent at time t sets
\* next_time to t plus the delay in force, and the delay then doubles up to
\* 20000 ms; a browser that has sent no query yet does not wait, so its
\* first query is sent on creation.
C30_BrowserBackoff ==
    /\ [](\A b \in Browsers :
            br[b].pc # "none" =>
               /\ br[b].delay \in BrowserDelays
               /\ br[b].delay = BROWSER_TIME =>
                     br[b].pc \notin {"towait", "waiting"})
    /\ [][\A b \in Browsers :
            /\ br[b].pc # "none" => br'[b].delay >= br[b].delay
            /\ SendsQuery(b) =>
                  /\ br[b].now = clock
                  /\ br'[b].next_time = clock + br[b].delay
                  /\ br'[b].delay = IF br[b].delay = 16000 THEN 20000
                                    ELSE IF br[b].delay = 20000 THEN 20000
                                    ELSE 2 * br[b].delay
            /\ br'[b].delay # br[b].delay => SendsQuery(b)]_vars

\* A browser has reached the cap: its last query was sent with a delay of
\* 20000 ms in force and the next one is due 20000 ms after it
C30_Witness ==
    \E b \in Browsers :
        /\ br[b].delay = 20000
        /\ br[b].pc = "waiting"
        /\ br[b].wake = clock + 20000
        /\ clock > 31000

\* C31: read_name ends on every byte sequence, by returning or by
\* raising; no arrangement of compression pointers keeps its loop going
\* for ever.
C31_ReadNameTerminates ==
    unit.op = "readname" ~> unit.pc \in {"returned", "raised"}

\* read_name followed a pointer, read a label forward from there, came to
\* a pointer that does not point below the last one, and raised
C31_Witness ==
    /\ unit.op = "readname"
    /\ unit.pc = "raised"
    /\ unit.err = "Exception"
    /\ unit.jumped
    /\ unit.forward
    /\ unit.off >= unit.first

\* C32: a question is answered by a record if and only if their names are
\* equal without regard to case, their classes are equal, and the type of
\* the question is the type of the record or ANY.
C32_AnsweredByIgnoresCase ==
    (unit.op = "answered_by" /\ unit.result # "none") =>
        ( unit.result = "True"
            <=> /\ Lower(unit.question.name) = Lower(unit.rec.name)
                /\ unit.question.class = unit.rec.class
                /\ unit.question.type \in {unit.rec.type, TYPE_ANY} )

\* The answers handle_query prepares for a query, before any of them is
\* left out: what it adds for the same questions with no known answer
Candidates(msg, svcs, types, now) ==
    HandleQuestions(NoOut, [msg EXCEPT !.answers = <<>>], svcs, types, now,
                    1).answers

\* The query carries an answer equal to the record with more than half of
\* its ttl
KnownTo(record, msg) ==
    \E i \in 1..Len(msg.answers) :
        SameFields(record, msg.answers[i]) /\ 2 * msg.answers[i].ttl > record.ttl

\* The candidates the query does not know, as the response carries them
Kept(msg, cand) ==
    LET Unknown(a) == ~KnownTo(a.rec, msg)
        kept == SelectSeq(cand, Unknown)
    IN  [i \in 1..Len(kept) |->
            [kept[i].rec EXCEPT !.unique = @ /\ msg.port = MDNS_PORT]]

\* C33: handle_query leaves a candidate answer out exactly when the query
\* carries an equal answer with more than half of its ttl; it sends nothing
\* when no answer is left, and otherwise one response, with the query's id
\* when unicast and id 0 when multicast.
C33_KnownAnswersSuppressed ==
    unit.op = "handle_query" =>
        LET kept == Kept(unit.msg, Candidates(unit.msg, unit.services,
                                              unit.servicetypes, unit.now))
        IN  IF kept = <<>> THEN unit.sent = <<>>
            ELSE /\ Len(unit.sent) = 1
                 /\ unit.sent[1].pkt.answers = kept
                 /\ unit.sent[1].pkt.id =
                        IF unit.msg.port = MDNS_PORT THEN 0 ELSE unit.msg.id

\* C34: the reaper evicts a record only if the record is expired at the
\* moment of the eviction, whatever handle_response did since the sweep
\* judged it.
C34_EvictsOnlyExpired ==
    [][(/\ rp.pc = "remove"
        /\ rp'.pc = "sweep"
        /\ Len(Entries(cache')) < Len(Entries(cache)))
          => IsExpired(ReaperRecord, clock)]_vars

\* C35: with two get_service_info calls running at once, the ServiceInfo of
\* a call is in the listeners list exactly while its call runs: a call that
\* ends removes its own object and no other, and none is left once both
\* have returned.
C35_OwnResolverRemoved ==
    unit.op = "request" =>
        \A s \in Requesters :
            unit.pc[s] = "request" <=> s \in ListSet(listeners)

\* The callbacks a browser has enqueued for the instance name of key k, in
\* the order it enqueued them
CallbacksFor(b, k) ==
    LET ForName(e) == Lower(e.name) = k
    IN  SelectSeq(enq[b], ForName)

\* C36: for each browser and each instance name, the callbacks enqueued begin
\* with add_service and alternate add_service, remove_service, add_service,
\* and the name is in the browser's known services exactly when the last
\* callback enqueued for it is add_service.
C36_CallbacksAlternate ==
    \A b \in Browsers : \A k \in CacheKeys :
        /\ \A i \in 1..Len(CallbacksFor(b, k)) :
              CallbacksFor(b, k)[i].kind = IF i % 2 = 1 THEN "add" ELSE "remove"
        /\ br[b].services[k] # NoRec <=> Len(CallbacksFor(b, k)) % 2 = 1

\* C36's case: a service is added, removed and added again
C36_Witness ==
    \E b \in Browsers : \E k \in CacheKeys :
        /\ Len(CallbacksFor(b, k)) >= 3
        /\ br[b].services[k] # NoRec

\* The services of type T in the registry
ServicesOfType(T) ==
    {k \in ServiceKeys : services[k] # NoInfo /\ services[k].type = T}

\* C37: whatever was registered and unregistered, servicetypes[T] is the
\* number of services of type T in the registry, and T is not a key of
\* servicetypes (a count of 0) when there is none.
C37_TypeCountsMatchRegistry ==
    \A T \in ServiceTypes : servicetypes[T] = Cardinality(ServicesOfType(T))

\* The record is one of service S: its PTR, SRV or TXT record
RecordOfService(S, r) ==
    \/ r.type = TYPE_PTR /\ r.alias = S.name
    \/ r.type \in {TYPE_SRV, TYPE_TXT} /\ r.name = S.name

\* The datagram is a response with a record of S of ttl 0
SaysGoodbye(dg, S) ==
    \E i \in 1..Len(dg.pkt.answers) :
        RecordOfService(S, dg.pkt.answers[i]) /\ dg.pkt.answers[i].ttl = 0

\* The datagram is a response with a record of S of a ttl other than 0
Advertises(dg, S) ==
    \E i \in 1..Len(dg.pkt.answers) :
        RecordOfService(S, dg.pkt.answers[i]) /\ dg.pkt.answers[i].ttl # 0

\* C38: once close() has sent the first goodbye for a service, the node
\* sends no response with a record of that service of non-zero ttl (no
\* service is registered after close() has begun).
C38_NothingAfterGoodbye ==
    \A i \in 1..Len(sent) : \A j \in 1..Len(sent) :
        (i < j /\ SaysGoodbye(sent[i], SWeb)) => ~Advertises(sent[j], SWeb)

\* C39: the shutdown state of a node is its own: a thread of a node ends
\* only if close() was called on that node, and no thread of a node goes on
\* with its loop after close() was called on its node, whatever is done
\* with the other node.
C39_ShutdownIsPerNode ==
    unit.op = "nodes" =>
        \A n \in Nodes : \A w \in Workers :
            /\ unit.th[n][w] = "exit" => unit.closed[n]
            /\ ~unit.resumed[n][w]

\* C40: once remove_service_listener has returned for a listener, its
\* browser invokes no add_service or remove_service callback on it any more,
\* wherever the browser thread was when it was cancelled.
C40_NoCallbackAfterRemoval ==
    [][\A b \in Browsers : br[b].done => calls'[b] = calls[b]]_vars

====
